---------------------------- MODULE Spec2Model ----------------------------
(***************************************************************************)
(* Resume Information Extraction Engine (backend/services/nlpService.js).  *)
(* Further down: the invocations made on the exported singleton, the api   *)
(* client with AuthService of the front end, and generateInterviewSlots.   *)
(*                                                                         *)
(* A JavaScript string is a sequence of one-character strings, so that     *)
(* split, trim, includes, indexOf, substring, toLowerCase and the regular  *)
(* expressions of the source act on characters as they do in the program.  *)
(* A JavaScript value is a record [t |-> tag, v |-> payload]:              *)
(*    "undef" | "null" | "bool" | "num" | "str" | "arr" | "obj"            *)
(* An object's payload is its sequence of <<key, value>> pairs, in source  *)
(* order; a later pair with the same key shadows an earlier one.           *)
(* The backquote character, which a TLA+ string cannot hold, is "BQ".      *)
(***************************************************************************)
EXTENDS Integers, Sequences, FiniteSets, TLC

VARIABLES
    text,       \* the resumeText handed to the service
    op,         \* the method invoked: none | extractFallbackData |
                \*   extractResumeData | generateCandidateBrief | analyzeFeedback
    pc,         \* idle | requesting | succeeded | failed | returned | threw
    requests,   \* outbound completion requests issued by the invocation
    response,   \* the settled outcome of the invocation's request
    cleanedContent, \* what cleanJsonResponse handed to JSON.parse, if called
    completion, \* how the invocation completed: a return value or a throw
    resumeData, \* the record handed to generateCandidateBrief
    service,    \* the exported NLPService singleton: its apiKey and apiUrl
    calls,      \* the invocations made on the singleton, each with its own
                \*   resumeText, request, response and completion
    storage,    \* localStorage: the career_ai_token and career_ai_user items
    defaults,   \* api.defaults.headers.common['Authorization']
    inflight,   \* requests sent through the api client and not yet answered
    navigating, \* window.location.href was assigned, the page not yet loaded
    cleared,    \* the token that 401 handling or logout last removed
    sentSince,  \* the Authorization headers of the requests sent since then
    scheduling  \* a call of generateInterviewSlots: its arguments and result

invocationVars == <<text, op, pc, requests, response, cleanedContent,
                    completion, resumeData>>
serviceVars == <<service, calls>>
authVars == <<storage, defaults, inflight, navigating, cleared, sentSince>>
vars == <<invocationVars, serviceVars, authVars, scheduling>>

(***************************************************************************)
(* Characters and character classes (ECMAScript \s, \d, \w, ASCII range).  *)
(***************************************************************************)
Upper == <<"A","B","C","D","E","F","G","H","I","J","K","L","M",
           "N","O","P","Q","R","S","T","U","V","W","X","Y","Z">>
Lower == <<"a","b","c","d","e","f","g","h","i","j","k","l","m",
           "n","o","p","q","r","s","t","u","v","w","x","y","z">>
Digits == <<"0","1","2","3","4","5","6","7","8","9">>

Range(s) == { s[i] : i \in 1..Len(s) }

WhiteSpace == {" ", "\t", "\n", "\r"}
DigitChars == Range(Digits)
WordChars == Range(Upper) \cup Range(Lower) \cup DigitChars \cup {"_"}

Min(S) == CHOOSE m \in S : \A n \in S : m <= n
Max(S) == CHOOSE m \in S : \A n \in S : m >= n

\* const c = x; followed by the statements F that read c
With(x, F(_)) == F(x)

(***************************************************************************)
(* String.prototype methods.  Indices are JavaScript's (0-based).          *)
(***************************************************************************)
LowerOf == [c \in Range(Upper) |-> Lower[CHOOSE i \in 1..26 : Upper[i] = c]]

LowerChar(c) == IF c \in DOMAIN LowerOf THEN LowerOf[c] ELSE c

ToLowerCase(s) == [i \in 1..Len(s) |-> LowerChar(s[i])]

\* s starts with p at 0-based offset i
MatchAt(s, p, i) ==
    /\ i >= 0
    /\ i + Len(p) <= Len(s)
    /\ \A k \in 1..Len(p) : s[i + k] = p[k]

IndexOf(s, p) ==
    With({ i \in 0..(Len(s) - Len(p)) : MatchAt(s, p, i) },
         LAMBDA hits : IF hits = {} THEN -1 ELSE Min(hits))

LastIndexOf(s, p) ==
    With({ i \in 0..(Len(s) - Len(p)) : MatchAt(s, p, i) },
         LAMBDA hits : IF hits = {} THEN -1 ELSE Max(hits))

Includes(s, p) == \E i \in 0..(Len(s) - Len(p)) : MatchAt(s, p, i)

Clamp(n, len) == IF n < 0 THEN 0 ELSE IF n > len THEN len ELSE n

\* substring(start, end): both clamped to [0, length], swapped when start > end
Substring(s, start, end) ==
    With({Clamp(start, Len(s)), Clamp(end, Len(s))},
         LAMBDA ends : SubSeq(s, Min(ends) + 1, Max(ends)))

Trim(s) ==
    With({ i \in 1..Len(s) : s[i] \notin WhiteSpace },
         LAMBDA keep : IF keep = {} THEN <<>>
                       ELSE SubSeq(s, Min(keep), Max(keep)))

RECURSIVE Split(_, _)
\* split on a one-character separator; "".split(c) is [""]
Split(s, c) ==
    With(IndexOf(s, <<c>>),
         LAMBDA i : IF i = -1 THEN <<s>>
                    ELSE <<SubSeq(s, 1, i)>>
                         \o Split(SubSeq(s, i + 2, Len(s)), c))

RECURSIVE Join(_, _)
\* Array.prototype.join over an array of strings
Join(a, sep) ==
    IF Len(a) = 0 THEN <<>>
    ELSE IF Len(a) = 1 THEN a[1]
    ELSE a[1] \o sep \o Join(Tail(a), sep)

\* Array.prototype.slice(from, to) for 0 <= from <= to
Slice(a, from, to) == SubSeq(a, Clamp(from, Len(a)) + 1, Clamp(to, Len(a)))

\* Array.prototype.map / filter
Map(a, F(_)) == [i \in 1..Len(a) |-> F(a[i])]
Filter(a, P(_)) == SelectSeq(a, P)

(***************************************************************************)
(* JavaScript values.                                                      *)
(***************************************************************************)
Undefined == [t |-> "undef", v |-> <<>>]
Null == [t |-> "null", v |-> <<>>]
Bool(b) == [t |-> "bool", v |-> b]
Num(n) == [t |-> "num", v |-> n]
Str(s) == [t |-> "str", v |-> s]
Arr(a) == [t |-> "arr", v |-> a]
Obj(pairs) == [t |-> "obj", v |-> pairs]

\* ToBoolean
Truthy(x) ==
    CASE x.t \in {"undef", "null"} -> FALSE
      [] x.t = "bool" -> x.v
      [] x.t = "num" -> x.v # 0
      [] x.t = "str" -> Len(x.v) > 0
      [] OTHER -> TRUE

\* a || b
OrElse(a, b) == IF Truthy(a) THEN a ELSE b

\* x is undefined or null: reading a property of it raises TypeError
Nullish(x) == x.t \in {"undef", "null"}

\* x.key for a non-nullish x and a key that names no built-in of x
Get(x, key) ==
    IF x.t # "obj" THEN Undefined
    ELSE With({ i \in 1..Len(x.v) : x.v[i][1] = key },
              LAMBDA hits : IF hits = {} THEN Undefined
                            ELSE x.v[Max(hits)][2])

\* x[0] for a non-nullish x
First(x) ==
    CASE x.t = "arr" -> IF Len(x.v) > 0 THEN x.v[1] ELSE Undefined
      [] x.t = "str" -> IF Len(x.v) > 0 THEN Str(<<x.v[1]>>) ELSE Undefined
      [] OTHER -> Undefined

\* x?.key
OptGet(x, key) == IF Nullish(x) THEN Undefined ELSE Get(x, key)

\* x?.[0]
OptFirst(x) == IF Nullish(x) THEN Undefined ELSE First(x)

IsArray(x) == x.t = "arr"

(***************************************************************************)
(* String literals and property names of the source.                      *)
(***************************************************************************)
Lit == [
    Unknown |-> <<"U","n","k","n","o","w","n">>,
    UnknownEmail |-> <<"u","n","k","n","o","w","n","@","e","m","a","i","l",".","c","o","m">>,
    NotProvided |-> <<"N","o","t"," ","p","r","o","v","i","d","e","d">>,
    Https |-> <<"h","t","t","p","s",":","/","/">>,
    LinkedinPrefix |-> <<"l","i","n","k","e","d","i","n",".","c","o","m","/","i","n","/">>,
    JavaScript |-> <<"J","a","v","a","S","c","r","i","p","t">>,
    React |-> <<"R","e","a","c","t">>,
    NodeJs |-> <<"N","o","d","e",".","j","s">>,
    MongoDB |-> <<"M","o","n","g","o","D","B">>,
    Present |-> <<"P","r","e","s","e","n","t">>,
    ExpDescription |-> <<"D","e","v","e","l","o","p","e","d"," ","a","n","d"," ","m","a","i","n","t","a","i","n","e","d"," ","s","o","f","t","w","a","r","e"," ","a","p","p","l","i","c","a","t","i","o","n","s">>,
    SoftwareEngineer |-> <<"S","o","f","t","w","a","r","e"," ","E","n","g","i","n","e","e","r">>,
    TechCompany |-> <<"T","e","c","h"," ","C","o","m","p","a","n","y">>,
    Since2021 |-> <<"2","0","2","1"," ","-"," ","P","r","e","s","e","n","t">>,
    ExpPlaceholderDescription |-> <<"D","e","v","e","l","o","p","e","d"," ","w","e","b"," ","a","p","p","l","i","c","a","t","i","o","n","s"," ","u","s","i","n","g"," ","m","o","d","e","r","n"," ","t","e","c","h","n","o","l","o","g","i","e","s">>,
    bachelor |-> <<"b","a","c","h","e","l","o","r">>,
    master |-> <<"m","a","s","t","e","r">>,
    university |-> <<"u","n","i","v","e","r","s","i","t","y">>,
    Bachelor |-> <<"B","a","c","h","e","l","o","r">>,
    Master |-> <<"M","a","s","t","e","r">>,
    University |-> <<"U","n","i","v","e","r","s","i","t","y">>,
    BachelorOfScience |-> <<"B","a","c","h","e","l","o","r"," ","o","f"," ","S","c","i","e","n","c","e">>,
    MasterOfScience |-> <<"M","a","s","t","e","r"," ","o","f"," ","S","c","i","e","n","c","e">>,
    Degree |-> <<"D","e","g","r","e","e">>,
    Year2020 |-> <<"2","0","2","0">>,
    Cgpa |-> <<"3",".","5">>,
    ComputerScience |-> <<"C","o","m","p","u","t","e","r"," ","S","c","i","e","n","c","e">>,
    Certification |-> <<" ","C","e","r","t","i","f","i","c","a","t","i","o","n">>,
    project |-> <<"p","r","o","j","e","c","t">>,
    projectsColon |-> <<"p","r","o","j","e","c","t","s",":">>,
    SoftwareProject |-> <<"S","o","f","t","w","a","r","e"," ","P","r","o","j","e","c","t">>,
    ProjDescription |-> <<"D","e","v","e","l","o","p","e","d"," ","a"," ","s","o","f","t","w","a","r","e"," ","a","p","p","l","i","c","a","t","i","o","n">>,
    WebApplication |-> <<"W","e","b"," ","A","p","p","l","i","c","a","t","i","o","n">>,
    ProjPlaceholderDescription |-> <<"B","u","i","l","t"," ","a"," ","f","u","l","l","-","s","t","a","c","k"," ","w","e","b"," ","a","p","p","l","i","c","a","t","i","o","n">>,
    professional |-> <<"p","r","o","f","e","s","s","i","o","n","a","l">>,
    CommaSpace |-> <<","," ">>,
    And |-> <<" ","a","n","d"," ">>,
    BriefQualified |-> <<" ","i","s"," ","a"," ","q","u","a","l","i","f","i","e","d"," ">>,
    BriefExpertise |-> <<" ","w","i","t","h"," ","e","x","p","e","r","t","i","s","e"," ","i","n"," ">>,
    BriefTheyHave |-> <<"."," ","T","h","e","y"," ","h","a","v","e"," ">>,
    BriefYears |-> <<"+"," ","y","e","a","r","s"," ","o","f"," ","e","x","p","e","r","i","e","n","c","e"," ","a","n","d"," ","h","o","l","d"," ","a"," ">>,
    BriefStrong |-> <<"."," ","S","t","r","o","n","g"," ","t","e","c","h","n","i","c","a","l"," ","b","a","c","k","g","r","o","u","n","d"," ","w","i","t","h"," ","p","r","o","v","e","n"," ","e","x","p","e","r","i","e","n","c","e"," ","i","n"," ","s","o","f","t","w","a","r","e"," ","d","e","v","e","l","o","p","m","e","n","t"," ","a","n","d"," ","m","o","d","e","r","n"," ","t","e","c","h","n","o","l","o","g","i","e","s","."," ","E","x","c","e","l","l","e","n","t"," ","c","a","n","d","i","d","a","t","e"," ","f","o","r"," ","t","e","c","h","n","i","c","a","l"," ","r","o","l","e","s"," ","r","e","q","u","i","r","i","n","g"," ">>,
    BriefEnd |-> <<" ","e","x","p","e","r","t","i","s","e",".">>,
    undefined |-> <<"u","n","d","e","f","i","n","e","d">>,
    null |-> <<"n","u","l","l">>,
    true |-> <<"t","r","u","e">>,
    false |-> <<"f","a","l","s","e">>,
    ObjectObject |-> <<"[","o","b","j","e","c","t"," ","O","b","j","e","c","t","]">>
    ]

Key == [
    name |-> <<"n","a","m","e">>,
    email |-> <<"e","m","a","i","l">>,
    phone |-> <<"p","h","o","n","e">>,
    linkedin |-> <<"l","i","n","k","e","d","i","n">>,
    skills |-> <<"s","k","i","l","l","s">>,
    experience |-> <<"e","x","p","e","r","i","e","n","c","e">>,
    education |-> <<"e","d","u","c","a","t","i","o","n">>,
    certifications |-> <<"c","e","r","t","i","f","i","c","a","t","i","o","n","s">>,
    projects |-> <<"p","r","o","j","e","c","t","s">>,
    title |-> <<"t","i","t","l","e">>,
    company |-> <<"c","o","m","p","a","n","y">>,
    duration |-> <<"d","u","r","a","t","i","o","n">>,
    description |-> <<"d","e","s","c","r","i","p","t","i","o","n">>,
    degree |-> <<"d","e","g","r","e","e">>,
    school |-> <<"s","c","h","o","o","l">>,
    year |-> <<"y","e","a","r">>,
    cgpa |-> <<"c","g","p","a">>,
    stream |-> <<"s","t","r","e","a","m">>,
    technologies |-> <<"t","e","c","h","n","o","l","o","g","i","e","s">>,
    choices |-> <<"c","h","o","i","c","e","s">>,
    message |-> <<"m","e","s","s","a","g","e">>,
    content |-> <<"c","o","n","t","e","n","t">>
    ]

yearLiterals == <<<<"2","0","1","9">>, <<"2","0","2","0">>, <<"2","0","2","1">>, <<"2","0","2","2">>, <<"2","0","2","3">>>>

certKeywords == <<
    <<"A","W","S">>,
    <<"G","o","o","g","l","e"," ","C","l","o","u","d">>,
    <<"M","o","n","g","o","D","B">>,
    <<"S","c","r","u","m">>,
    <<"C","e","r","t","i","f","i","e","d">>,
    <<"C","e","r","t","i","f","i","c","a","t","e">>>>

(***************************************************************************)
(* Regular expressions of extractFallbackData.  A match is                 *)
(* [found |-> BOOLEAN, m |-> the matched text]; positions are 0-based and  *)
(* the match returned is the leftmost one, greedy quantifiers backtracking *)
(* from their longest candidate, as String.prototype.match does.           *)
(***************************************************************************)
NoMatch == [found |-> FALSE, m |-> <<>>]
Match(s, from, to) == [found |-> TRUE, m |-> SubSeq(s, from + 1, to)]

CharAt(s, p) == IF p >= 0 /\ p < Len(s) THEN s[p + 1] ELSE ""

\* the position after the longest run of characters of class C that starts at p
RunEnd(s, p, C) ==
    CHOOSE q \in p..Len(s) : /\ CharAt(s, q) \notin C
                             /\ \A r \in p..(q - 1) : CharAt(s, r) \in C

EmailClass == WordChars \cup {".", "-"}

\* /[\w\.-]+@[\w\.-]+\.\w+/ anchored at i: the end of the match, or -1.
\* '@' is outside [\w\.-], so the first group is the whole run before it; the
\* second group backtracks from the end of its run to the last '.' that a
\* word character follows.
EmailEndAt(s, i) ==
    With(RunEnd(s, i, EmailClass), LAMBDA at :
    With({ e \in (at + 2)..RunEnd(s, at + 1, EmailClass) :
             CharAt(s, e) = "." /\ CharAt(s, e + 1) \in WordChars },
         LAMBDA dots :
            IF at > i /\ CharAt(s, at) = "@" /\ dots # {}
            THEN RunEnd(s, Max(dots) + 1, WordChars)
            ELSE -1))

\* String.prototype.match(re) without the g flag: the leftmost start at which
\* the expression matches, EndAt giving the end of the match there or -1
LeftmostMatch(s, EndAt(_, _)) ==
    With({ i \in 0..Len(s) : EndAt(s, i) # -1 },
         LAMBDA starts : IF starts = {} THEN NoMatch
                         ELSE Match(s, Min(starts), EndAt(s, Min(starts))))

EmailMatch(s) == LeftmostMatch(s, EmailEndAt)

PhoneSeparators == WhiteSpace \cup {"-", "(", ")"}
PhoneClass == DigitChars \cup PhoneSeparators

\* /[\+]?[1-9]?[\s\-\(\)]?[\d\s\-\(\)]{10,}/ anchored at i: the end of the
\* match, or -1.  Each optional item is taken (1) or skipped (0); the greedy
\* engine prefers taking, so the first successful choice is the greatest
\* <<a, b, c>> in lexicographic order.
PhoneEndAt(s, i) ==
    LET ok(a, b, c) ==
            /\ a = 1 => CharAt(s, i) = "+"
            /\ b = 1 => CharAt(s, i + a) \in (DigitChars \ {"0"})
            /\ c = 1 => CharAt(s, i + a + b) \in PhoneSeparators
            /\ RunEnd(s, i + a + b + c, PhoneClass) - (i + a + b + c) >= 10
        rank(o) == 4 * o[1] + 2 * o[2] + o[3]
    IN  With({ o \in {0, 1} \X {0, 1} \X {0, 1} : ok(o[1], o[2], o[3]) },
             LAMBDA opts :
                IF opts = {} THEN -1
                ELSE With(CHOOSE o \in opts :
                              \A p \in opts : rank(p) <= rank(o),
                          LAMBDA best :
                              RunEnd(s, i + best[1] + best[2] + best[3],
                                     PhoneClass)))

PhoneMatch(s) == LeftmostMatch(s, PhoneEndAt)

\* /linkedin\.com\/in\/[\w\-]+/i
LinkedinEndAt(s, i) ==
    IF /\ MatchAt(ToLowerCase(s), Lit.LinkedinPrefix, i)
       /\ CharAt(s, i + Len(Lit.LinkedinPrefix)) \in WordChars \cup {"-"}
    THEN RunEnd(s, i + Len(Lit.LinkedinPrefix), WordChars \cup {"-"})
    ELSE -1

LinkedinMatch(s) == LeftmostMatch(s, LinkedinEndAt)

\* line.replace(/project/i, ''): the first occurrence, if any, is removed
RemoveFirstIgnoreCase(s, p) ==
    With(IndexOf(ToLowerCase(s), p),
         LAMBDA i : IF i = -1 THEN s
                    ELSE SubSeq(s, 1, i) \o SubSeq(s, i + Len(p) + 1, Len(s)))

(***************************************************************************)
(* Skill Taxonomy Matcher.                                                 *)
(***************************************************************************)
technicalSkills == <<
    <<"J","a","v","a","S","c","r","i","p","t">>,  \* JavaScript
    <<"P","y","t","h","o","n">>,  \* Python
    <<"J","a","v","a">>,  \* Java
    <<"C">>,  \* C
    <<"C","+","+">>,  \* C++
    <<"S","Q","L">>,  \* SQL
    <<"R">>,  \* R
    <<"M","A","T","L","A","B">>,  \* MATLAB
    <<"R","e","a","c","t">>,  \* React
    <<"N","o","d","e",".","j","s">>,  \* Node.js
    <<"E","x","p","r","e","s","s",".","j","s">>,  \* Express.js
    <<"M","o","n","g","o","D","B">>,  \* MongoDB
    <<"H","T","M","L">>,  \* HTML
    <<"C","S","S">>,  \* CSS
    <<"T","y","p","e","S","c","r","i","p","t">>,  \* TypeScript
    <<"R","e","d","u","x">>,  \* Redux
    <<"R","E","S","T"," ","A","P","I">>,  \* REST API
    <<"G","r","a","p","h","Q","L">>,  \* GraphQL
    <<"G","i","t">>,  \* Git
    <<"G","i","t","H","u","b">>,  \* GitHub
    <<"G","i","t","L","a","b">>,  \* GitLab
    <<"D","o","c","k","e","r">>,  \* Docker
    <<"K","u","b","e","r","n","e","t","e","s">>,  \* Kubernetes
    <<"A","W","S">>,  \* AWS
    <<"A","z","u","r","e">>,  \* Azure
    <<"G","o","o","g","l","e"," ","C","l","o","u","d">>,  \* Google Cloud
    <<"F","i","r","e","b","a","s","e">>,  \* Firebase
    <<"O","p","e","n","C","V">>,  \* OpenCV
    <<"T","e","n","s","o","r","F","l","o","w">>,  \* TensorFlow
    <<"P","y","T","o","r","c","h">>,  \* PyTorch
    <<"M","a","c","h","i","n","e"," ","L","e","a","r","n","i","n","g">>,  \* Machine Learning
    <<"D","e","e","p"," ","L","e","a","r","n","i","n","g">>,  \* Deep Learning
    <<"N","a","t","u","r","a","l"," ","L","a","n","g","u","a","g","e"," ","P","r","o","c","e","s","s","i","n","g">>,  \* Natural Language Processing
    <<"C","o","m","p","u","t","e","r"," ","V","i","s","i","o","n">>,  \* Computer Vision
    <<"D","a","t","a"," ","A","n","a","l","y","s","i","s">>,  \* Data Analysis
    <<"D","a","t","a"," ","V","i","s","u","a","l","i","z","a","t","i","o","n">>,  \* Data Visualization
    <<"P","a","n","d","a","s">>,  \* Pandas
    <<"N","u","m","P","y">>,  \* NumPy
    <<"S","c","i","k","i","t","-","l","e","a","r","n">>,  \* Scikit-learn
    <<"T","a","b","l","e","a","u">>,  \* Tableau
    <<"P","o","w","e","r"," ","B","I">>,  \* Power BI
    <<"A","g","i","l","e">>,  \* Agile
    <<"S","c","r","u","m">>,  \* Scrum
    <<"K","a","n","b","a","n">>,  \* Kanban
    <<"C","I","/","C","D">>,  \* CI/CD
    <<"L","i","n","u","x">>,  \* Linux
    <<"S","h","e","l","l"," ","S","c","r","i","p","t","i","n","g">>,  \* Shell Scripting
    <<"C","y","b","e","r","s","e","c","u","r","i","t","y">>,  \* Cybersecurity
    <<"N","e","t","w","o","r","k","i","n","g">>,  \* Networking
    <<"C","l","o","u","d"," ","C","o","m","p","u","t","i","n","g">>,  \* Cloud Computing
    <<"S","y","s","t","e","m"," ","D","e","s","i","g","n">>,  \* System Design
    <<"O","O","P">>,  \* OOP
    <<"F","u","n","c","t","i","o","n","a","l"," ","P","r","o","g","r","a","m","m","i","n","g">>,  \* Functional Programming
    <<"D","a","t","a"," ","S","t","r","u","c","t","u","r","e","s">>,  \* Data Structures
    <<"A","l","g","o","r","i","t","h","m","s">>,  \* Algorithms
    <<"D","a","t","a","b","a","s","e"," ","M","a","n","a","g","e","m","e","n","t">>,  \* Database Management
    <<"S","o","f","t","w","a","r","e"," ","T","e","s","t","i","n","g">>,  \* Software Testing
    <<"U","n","i","t"," ","T","e","s","t","i","n","g">>,  \* Unit Testing
    <<"I","n","t","e","g","r","a","t","i","o","n"," ","T","e","s","t","i","n","g">>,  \* Integration Testing
    <<"U","I","/","U","X">>,  \* UI/UX
    <<"F","i","g","m","a">>,  \* Figma
    <<"W","i","r","e","f","r","a","m","i","n","g">>,  \* Wireframing
    <<"A","P","I"," ","I","n","t","e","g","r","a","t","i","o","n">>,  \* API Integration
    <<"M","i","c","r","o","s","e","r","v","i","c","e","s">>,  \* Microservices
    <<"D","e","v","O","p","s">>  \* DevOps
    >>

defaultSkills == <<Lit.JavaScript, Lit.React, Lit.NodeJs>>

\* a faulty matcher: text.includes(skill), the case of the letters kept
CaseSensitiveSkills(t) ==
    With(SelectSeq(technicalSkills, LAMBDA skill : Includes(t, skill)),
         LAMBDA foundSkills :
            IF Len(foundSkills) > 0 THEN foundSkills ELSE defaultSkills)

extractSkillsFromText(t) ==
    With(ToLowerCase(t), LAMBDA lowerText :
    With(SelectSeq(technicalSkills,
                   LAMBDA skill : Includes(lowerText, ToLowerCase(skill))),
         LAMBDA foundSkills :
            IF Len(foundSkills) > 0 THEN foundSkills ELSE defaultSkills))

(***************************************************************************)
(* Field extractors of the fallback path.  Each returns a JavaScript array.*)
(***************************************************************************)
StrArr(a) == Arr([i \in 1..Len(a) |-> Str(a[i])])

ExperienceEntry(title, company, duration, description) ==
    Obj(<< <<Key.title, Str(title)>>, <<Key.company, Str(company)>>,
           <<Key.duration, Str(duration)>>,
           <<Key.description, Str(description)>> >>)

EducationEntry(degree, school) ==
    Obj(<< <<Key.degree, Str(degree)>>, <<Key.school, Str(school)>>,
           <<Key.year, Str(Lit.Year2020)>>, <<Key.cgpa, Str(Lit.Cgpa)>>,
           <<Key.stream, Str(Lit.ComputerScience)>> >>)

ProjectEntry(name, description, technologies) ==
    Obj(<< <<Key.name, Str(name)>>, <<Key.description, Str(description)>>,
           <<Key.technologies, StrArr(technologies)>> >>)

TrimmedLines(t) == Map(Split(t, "\n"), Trim)

ExperienceLine(line) ==
    /\ Includes(line, <<"|">>)
    /\ \/ \E y \in 1..Len(yearLiterals) : Includes(line, yearLiterals[y])
       \/ Includes(line, Lit.Present)
    /\ Len(Split(line, "|")) >= 3

\* a faulty split: the segments as they stand, not trimmed
UntrimmedExperience(line) ==
    With(Split(line, "|"),
         LAMBDA parts : ExperienceEntry(parts[1], parts[2], parts[3],
                                        Lit.ExpDescription))

ExperienceFromLine(line) ==
    With(Map(Split(line, "|"), Trim),
         LAMBDA parts : ExperienceEntry(parts[1], parts[2], parts[3],
                                        Lit.ExpDescription))

extractExperienceFromText(t) ==
    With(Map(SelectSeq(TrimmedLines(t), ExperienceLine), ExperienceFromLine),
         LAMBDA experience :
            IF Len(experience) = 0
            THEN Arr(<<ExperienceEntry(Lit.SoftwareEngineer, Lit.TechCompany,
                                       Lit.Since2021,
                                       Lit.ExpPlaceholderDescription)>>)
            ELSE Arr(experience))

EducationLine(line) ==
    With(ToLowerCase(line),
         LAMBDA lower : \/ Includes(lower, Lit.bachelor)
                        \/ Includes(lower, Lit.master)
                        \/ Includes(lower, Lit.university))

\* a faulty entry: the following line is not looked at
EducationWithoutSchool(lines, i) ==
    EducationEntry(
        IF Includes(lines[i], Lit.Bachelor) THEN Lit.BachelorOfScience
        ELSE IF Includes(lines[i], Lit.Master) THEN Lit.MasterOfScience
        ELSE Lit.Degree,
        Lit.University)

\* the entry pushed for the line at 1-based index i
EducationAt(lines, i) ==
    With(IF i + 1 <= Len(lines) THEN lines[i + 1] ELSE <<>>,
         LAMBDA nextLine :
            EducationEntry(
                IF Includes(lines[i], Lit.Bachelor) THEN Lit.BachelorOfScience
                ELSE IF Includes(lines[i], Lit.Master) THEN Lit.MasterOfScience
                ELSE Lit.Degree,
                IF Includes(nextLine, Lit.University) THEN nextLine
                ELSE Lit.University))

\* the loop breaks at the first matching line
extractEducationFromText(t) ==
    With(TrimmedLines(t), LAMBDA lines :
    With({ i \in 1..Len(lines) : EducationLine(lines[i]) }, LAMBDA hits :
        IF hits = {}
        THEN Arr(<<EducationEntry(Lit.BachelorOfScience, Lit.University)>>)
        ELSE Arr(<<EducationAt(lines, Min(hits))>>)))

RECURSIVE Dedupe(_)
\* [...new Set(a)]: first occurrences, in order
Dedupe(a) ==
    IF Len(a) = 0 THEN <<>>
    ELSE With(Dedupe(SubSeq(a, 1, Len(a) - 1)),
              LAMBDA init :
                 IF \E k \in 1..Len(init) : init[k] = a[Len(a)] THEN init
                 ELSE Append(init, a[Len(a)]))

\* a faulty extractor: a placeholder is synthesized when no keyword is found
CertificationsOrPlaceholder(t) ==
    With(ToLowerCase(t), LAMBDA lowerText :
    With(Map(SelectSeq(certKeywords,
                       LAMBDA keyword : Includes(lowerText, ToLowerCase(keyword))),
             LAMBDA keyword : keyword \o Lit.Certification),
         LAMBDA certifications :
            IF Len(certifications) = 0
            THEN StrArr(<<certKeywords[1] \o Lit.Certification>>)
            ELSE StrArr(certifications)))

extractCertificationsFromText(t) ==
    With(ToLowerCase(t), LAMBDA lowerText :
        StrArr(Dedupe(Map(
            SelectSeq(certKeywords,
                      LAMBDA keyword : Includes(lowerText, ToLowerCase(keyword))),
            LAMBDA keyword : keyword \o Lit.Certification))))

ProjectLine(line) ==
    With(ToLowerCase(line),
         LAMBDA lower : /\ Includes(lower, Lit.project)
                        /\ ~Includes(lower, Lit.projectsColon))

\* the entry pushed for the line at 1-based index i, which is
\* lines.slice(i + 1, i + 3) of the 0-based index
ProjectAt(rawLines, i) ==
    With(Filter(Map(Slice(rawLines, i, i + 2), Trim), LAMBDA l : Len(l) > 0),
         LAMBDA nextLines :
    With(Trim(RemoveFirstIgnoreCase(Trim(rawLines[i]), Lit.project)),
         LAMBDA stripped :
            ProjectEntry(
                IF Len(stripped) > 0 THEN stripped ELSE Lit.SoftwareProject,
                IF Len(nextLines) > 0 THEN nextLines[1]
                ELSE Lit.ProjDescription,
                Slice(extractSkillsFromText(Join(nextLines, <<" ">>)), 0, 3))))

extractProjectsFromText(t) ==
    With(Split(t, "\n"), LAMBDA rawLines :
    With(Map(SelectSeq([i \in 1..Len(rawLines) |-> i],
                       LAMBDA i : ProjectLine(Trim(rawLines[i]))),
             LAMBDA i : ProjectAt(rawLines, i)),
         LAMBDA projects :
            IF Len(projects) = 0
            THEN Arr(<<ProjectEntry(Lit.WebApplication,
                                    Lit.ProjPlaceholderDescription,
                                    <<Lit.React, Lit.NodeJs, Lit.MongoDB>>)>>)
            ELSE Arr(projects)))

(***************************************************************************)
(* Fallback Extraction Pipeline.                                           *)
(***************************************************************************)
\* a faulty name extraction: lines[0] of the unfiltered lines, no sentinel
FirstTrimmedLine(resumeText) == TrimmedLines(resumeText)[1]

\* a faulty name extraction: only the first invocation made on the service
\* reads the lines, later ones find them consumed
FirstCallName(resumeText) ==
    IF \E k \in DOMAIN calls : calls[k].op # "none"
    THEN Lit.Unknown
    ELSE With(Filter(TrimmedLines(resumeText), LAMBDA line : Len(line) > 0),
              LAMBDA lines : IF Len(lines) > 0 THEN lines[1] ELSE Lit.Unknown)

\* lines[0] || 'Unknown' over the trimmed non-empty lines
FallbackName(resumeText) ==
    With(Filter(TrimmedLines(resumeText), LAMBDA line : Len(line) > 0),
         LAMBDA lines : IF Len(lines) > 0 THEN lines[1] ELSE Lit.Unknown)

\* a faulty sentinel: match ? match[0] : ''
MatchedOrEmpty(match, otherwise) == IF match.found THEN match.m ELSE <<>>

\* match ? match[0] : otherwise
MatchedOr(match, otherwise) == IF match.found THEN match.m ELSE otherwise

\* a faulty normalisation: the match itself, no scheme prefixed
LinkedinBare(match) == match.m

\* match ? `https://${match[0]}` : ''
LinkedinUrl(match) == IF match.found THEN Lit.Https \o match.m ELSE <<>>

extractFallbackData(resumeText) ==
    [ name |-> Str(FallbackName(resumeText)),
      email |-> Str(MatchedOr(EmailMatch(resumeText), Lit.UnknownEmail)),
      phone |-> Str(MatchedOr(PhoneMatch(resumeText), Lit.NotProvided)),
      linkedin |-> Str(LinkedinUrl(LinkedinMatch(resumeText))),
      skills |-> StrArr(extractSkillsFromText(resumeText)),
      experience |-> extractExperienceFromText(resumeText),
      education |-> extractEducationFromText(resumeText),
      certifications |-> extractCertificationsFromText(resumeText),
      projects |-> extractProjectsFromText(resumeText) ]

(***************************************************************************)
(* JSON.parse, for the JSON texts without string escapes, signs, fractions *)
(* and exponents (the texts the modelled responses are drawn from).  A     *)
(* parse step is [ok |-> BOOLEAN, val |-> value, pos |-> position after]. *)
(***************************************************************************)
ParseFail == [ok |-> FALSE, val |-> Undefined, pos |-> -1]
Parsed(val, pos) == [ok |-> TRUE, val |-> val, pos |-> pos]

SkipWs(s, p) == RunEnd(s, p, WhiteSpace)

RECURSIVE DigitsValue(_)
DigitsValue(d) ==
    IF Len(d) = 0 THEN 0
    ELSE 10 * DigitsValue(SubSeq(d, 1, Len(d) - 1))
         + (CHOOSE n \in 0..9 : Digits[n + 1] = d[Len(d)])

\* p is at a digit: "0", or a run of digits that does not start with "0"
ParseNumber(s, p) ==
    With(IF CharAt(s, p) = "0" THEN p + 1 ELSE RunEnd(s, p, DigitChars),
         LAMBDA end : Parsed(Num(DigitsValue(SubSeq(s, p + 1, end))), end))

\* the text of a string literal: control characters and escapes are rejected
StringBody(body, end) ==
    IF \E k \in 1..Len(body) : body[k] \in {"\n", "\t", "\r", "\\"}
    THEN ParseFail
    ELSE Parsed(Str(body), end + 1)

\* p is at the opening quote
ParseString(s, p) ==
    With({ q \in (p + 1)..(Len(s) - 1) : CharAt(s, q) = "\"" },
         LAMBDA closes :
            IF closes = {} THEN ParseFail
            ELSE StringBody(SubSeq(s, p + 2, Min(closes)), Min(closes)))

ParseLiteral(s, p, word, val) ==
    IF MatchAt(s, word, p) THEN Parsed(val, p + Len(word)) ELSE ParseFail

RECURSIVE ParseValueAt(_, _), ParseElements(_, _, _), ParseMembers(_, _, _)
\* the value that starts at q, no whitespace before it; close is the position
\* of the first non-blank character after an opening bracket at q
ParseValueAt(s, q) ==
    With(CharAt(s, q), LAMBDA c :
    With(SkipWs(s, q + 1), LAMBDA close :
        CASE c = "{" ->
                IF CharAt(s, close) = "}" THEN Parsed(Obj(<<>>), close + 1)
                ELSE ParseMembers(s, q + 1, <<>>)
          [] c = "[" ->
                IF CharAt(s, close) = "]" THEN Parsed(Arr(<<>>), close + 1)
                ELSE ParseElements(s, q + 1, <<>>)
          [] c = "\"" -> ParseString(s, q)
          [] c \in DigitChars -> ParseNumber(s, q)
          [] c = "n" -> ParseLiteral(s, q, Lit.null, Null)
          [] c = "t" -> ParseLiteral(s, q, Lit.true, Bool(TRUE))
          [] c = "f" -> ParseLiteral(s, q, Lit.false, Bool(FALSE))
          [] OTHER -> ParseFail))

\* the elements of an array from p on, acc holding those already read
ParseElements(s, p, acc) ==
    With(ParseValueAt(s, SkipWs(s, p)), LAMBDA el :
    With(SkipWs(s, el.pos), LAMBDA q :
        IF ~el.ok THEN ParseFail
        ELSE IF CharAt(s, q) = ","
        THEN ParseElements(s, q + 1, Append(acc, el.val))
        ELSE IF CharAt(s, q) = "]"
        THEN Parsed(Arr(Append(acc, el.val)), q + 1)
        ELSE ParseFail))

\* the members of an object from p on, acc holding those already read
ParseMembers(s, p, acc) ==
    With(SkipWs(s, p), LAMBDA k :
    With(IF CharAt(s, k) = "\"" THEN ParseString(s, k) ELSE ParseFail,
         LAMBDA key :
    With(SkipWs(s, key.pos), LAMBDA colon :
    With(IF key.ok /\ CharAt(s, colon) = ":"
         THEN ParseValueAt(s, SkipWs(s, colon + 1)) ELSE ParseFail,
         LAMBDA val :
    With(SkipWs(s, val.pos), LAMBDA q :
        IF ~val.ok THEN ParseFail
        ELSE IF CharAt(s, q) = ","
        THEN ParseMembers(s, q + 1, Append(acc, <<key.val.v, val.val>>))
        ELSE IF CharAt(s, q) = "}"
        THEN Parsed(Obj(Append(acc, <<key.val.v, val.val>>)), q + 1)
        ELSE ParseFail)))))

\* JSON.parse(s): ok is FALSE where it raises SyntaxError
JSONParse(s) ==
    With(ParseValueAt(s, SkipWs(s, 0)),
         LAMBDA r : IF r.ok /\ SkipWs(s, r.pos) = Len(s) THEN r ELSE ParseFail)

(***************************************************************************)
(* Completions: a call returns a value or throws; via tells whether the    *)
(* value was produced by the try block or by the catch block.              *)
(***************************************************************************)
Return(value) == [kind |-> "return", value |-> value, via |-> "try"]
Throw == [kind |-> "throw", value |-> Undefined, via |-> "try"]
Pending == [kind |-> "pending", value |-> Undefined, via |-> "none"]

\* a faulty try statement: no catch clause, the exception propagates
Uncaught(body, handler) == body

\* try { body } catch (error) { handler }
TryCatch(body, handler) ==
    IF body.kind = "throw" THEN [handler EXCEPT !.via = "catch"] ELSE body

(***************************************************************************)
(* LLM Response Protocol Layer.                                            *)
(***************************************************************************)
cleanJsonResponse(resp) ==
    With(IndexOf(resp, <<"{">>), LAMBDA jsonStart :
    With(LastIndexOf(resp, <<"}">>), LAMBDA jsonEnd :
        IF jsonStart # -1 /\ jsonEnd # -1
        THEN Substring(resp, jsonStart, jsonEnd + 1)
        ELSE resp))

\* FeedbackAnalysisService.cleanJsonResponse
feedbackCleanJsonResponse(resp) ==
    With(IndexOf(resp, <<"{">>), LAMBDA jsonStart :
    With(LastIndexOf(resp, <<"}">>), LAMBDA jsonEnd :
        IF jsonStart # -1 /\ jsonEnd # -1
        THEN Substring(resp, jsonStart, jsonEnd + 1)
        ELSE resp))

\* data.choices[0]?.message?.content: a throw where .choices is read of a
\* nullish data or [0] of a nullish choices
ContentOf(data) ==
    IF Nullish(data) THEN Throw
    ELSE With(Get(data, Key.choices), LAMBDA choices :
            IF Nullish(choices) THEN Throw
            ELSE Return(OptGet(OptGet(First(choices), Key.message),
                               Key.content)))

\* the awaited request followed by the read of the content: a rejected request
\* throws at the await
MessageContent(resp) ==
    IF resp.kind = "resolved" THEN ContentOf(resp.data) ELSE Throw

\* Clean(content): content.indexOf raises TypeError unless content is a string
Sanitized(content, Clean(_)) ==
    IF content.kind = "return" /\ content.value.t = "str"
    THEN Return(Str(Clean(content.value.v)))
    ELSE Throw

\* this.cleanJsonResponse(content) of extractResumeData
CleanedContent(resp) == Sanitized(MessageContent(resp), cleanJsonResponse)

ArrayOrEmpty(x) == IF IsArray(x) THEN x ELSE Arr(<<>>)

\* the object literal extractResumeData returns
ResumeRecord(parsedData) ==
    [ name |-> OrElse(Get(parsedData, Key.name), Str(Lit.Unknown)),
      email |-> OrElse(Get(parsedData, Key.email), Str(Lit.UnknownEmail)),
      phone |-> OrElse(Get(parsedData, Key.phone), Str(Lit.NotProvided)),
      linkedin |-> OrElse(Get(parsedData, Key.linkedin), Str(<<>>)),
      skills |-> ArrayOrEmpty(Get(parsedData, Key.skills)),
      experience |-> ArrayOrEmpty(Get(parsedData, Key.experience)),
      education |-> ArrayOrEmpty(Get(parsedData, Key.education)),
      certifications |-> ArrayOrEmpty(Get(parsedData, Key.certifications)),
      projects |-> ArrayOrEmpty(Get(parsedData, Key.projects)) ]

\* JSON.parse raised SyntaxError, or parsedData.name is read of null
ParsedRecord(parsed) ==
    IF ~parsed.ok THEN Throw
    ELSE IF Nullish(parsed.val) THEN Throw
    ELSE Return(ResumeRecord(parsed.val))

\* the body of the try block of extractResumeData
extractResumeDataTry(resp) ==
    With(CleanedContent(resp),
         LAMBDA cleaned : IF cleaned.kind = "throw" THEN Throw
                          ELSE ParsedRecord(JSONParse(cleaned.value.v)))

\* a faulty catch block: the per-field defaults instead of the fallback
CatchWithDefaults(resumeText) == Return(ResumeRecord(Undefined))

\* the catch block of extractResumeData
extractResumeDataCatch(resumeText) == Return(extractFallbackData(resumeText))

extractResumeData(resumeText, resp) ==
    TryCatch(extractResumeDataTry(resp), extractResumeDataCatch(resumeText))

(***************************************************************************)
(* Candidate Brief Generator.                                              *)
(***************************************************************************)
RECURSIVE NumToStr(_)
NumToStr(n) ==
    IF n < 10 THEN <<Digits[n + 1]>>
    ELSE NumToStr(n \div 10) \o <<Digits[(n % 10) + 1]>>

RECURSIVE ToStr(_)
\* ToString, as a template literal and Array.prototype.join apply it
ToStr(x) ==
    CASE x.t = "str" -> x.v
      [] x.t = "num" -> NumToStr(x.v)
      [] x.t = "undef" -> Lit.undefined
      [] x.t = "null" -> Lit.null
      [] x.t = "bool" -> IF x.v THEN Lit.true ELSE Lit.false
      [] x.t = "arr" ->
            Join([i \in 1..Len(x.v) |->
                    IF Nullish(x.v[i]) THEN <<>> ELSE ToStr(x.v[i])], <<",">>)
      [] OTHER -> Lit.ObjectObject

\* a?.slice(0, n).join(sep): undefined for a nullish a, a throw where the
\* result of slice has no join method
SliceJoin(a, n, sep) ==
    IF Nullish(a) THEN Return(Undefined)
    ELSE IF a.t = "arr"
    THEN Return(Str(Join([i \in 1..Len(Slice(a.v, 0, n)) |->
                            IF Nullish(a.v[i]) THEN <<>> ELSE ToStr(a.v[i])],
                         sep)))
    ELSE Throw

\* a?.length
OptLength(a) ==
    IF a.t \in {"arr", "str"} THEN Num(Len(a.v)) ELSE Undefined

\* a?.map(entry => ... entry.key ...): TypeError where a has no map method or
\* a property is read of a nullish entry
MapThrows(a) ==
    /\ ~Nullish(a)
    /\ \/ a.t # "arr"
       \/ \E i \in 1..Len(a.v) : Nullish(a.v[i])

\* the template literal of the prompt, evaluated before the try block
PromptThrows(rd) ==
    \/ ~Nullish(rd.skills) /\ rd.skills.t # "arr"
    \/ MapThrows(rd.experience)
    \/ MapThrows(rd.education)

\* the body of the try block of generateCandidateBrief
generateCandidateBriefTry(resp) ==
    With(MessageContent(resp), LAMBDA content :
        IF content.kind = "throw" THEN Throw
        ELSE IF Nullish(content.value) THEN Return(Undefined)
        ELSE IF content.value.t = "str"
        THEN Return(Str(Trim(content.value.v)))
        ELSE Throw)

\* the template literal of the catch block, three and two being the
\* completions of the two slice(...).join(...) expressions
BriefSentence(rd, three, two) ==
    IF three.kind = "throw" \/ two.kind = "throw" THEN Throw
    ELSE Return(Str(
        ToStr(rd.name) \o Lit.BriefQualified
        \o ToStr(OrElse(OptGet(OptFirst(rd.experience), Key.title),
                        Str(Lit.professional)))
        \o Lit.BriefExpertise \o ToStr(three.value)
        \o Lit.BriefTheyHave \o ToStr(OrElse(OptLength(rd.experience), Num(0)))
        \o Lit.BriefYears \o ToStr(OptGet(OptFirst(rd.education), Key.degree))
        \o Lit.BriefStrong \o ToStr(two.value) \o Lit.BriefEnd))

\* the catch block of generateCandidateBrief: the templated sentence
generateCandidateBriefCatch(rd) ==
    BriefSentence(rd, SliceJoin(rd.skills, 3, Lit.CommaSpace),
                  SliceJoin(rd.skills, 2, Lit.And))

\* what the promise of generateCandidateBrief settles to, the prompt built
generateCandidateBrief(rd, resp) ==
    TryCatch(generateCandidateBriefTry(resp), generateCandidateBriefCatch(rd))

(***************************************************************************)
(* FeedbackAnalysisService.analyzeFeedback (the second user of the         *)
(* sanitizer).                                                             *)
(***************************************************************************)
\* the object literal of analyzeFeedback's catch block, score and confidence
\* in hundredths
fallbackAnalysis ==
    Obj(<<<<<<"s","e","n","t","i","m","e","n","t">>, Str(<<"p","o","s","i","t","i","v","e">>)>>, <<<<"s","c","o","r","e">>, Num(75)>>, <<<<"c","o","n","f","i","d","e","n","c","e">>, Num(87)>>, <<<<"k","e","y","w","o","r","d","s">>, Obj(<<<<<<"p","o","s","i","t","i","v","e">>, Arr(<<Str(<<"e","x","c","e","l","l","e","n","t">>), Str(<<"s","k","i","l","l","e","d">>), Str(<<"e","x","p","e","r","i","e","n","c","e","d">>)>>)>>, <<<<"n","e","g","a","t","i","v","e">>, Arr(<<Str(<<"l","a","c","k","s">>), Str(<<"l","i","m","i","t","e","d">>)>>)>>, <<<<"n","e","u","t","r","a","l">>, Arr(<<Str(<<"c","a","n","d","i","d","a","t","e">>), Str(<<"i","n","t","e","r","v","i","e","w">>)>>)>>>>)>>, <<<<"r","e","d","F","l","a","g","s">>, Arr(<<Str(<<"C","o","m","m","u","n","i","c","a","t","i","o","n"," ","n","e","e","d","s"," ","i","m","p","r","o","v","e","m","e","n","t">>)>>)>>, <<<<"s","t","r","e","n","g","t","h","s">>, Arr(<<Str(<<"S","t","r","o","n","g"," ","t","e","c","h","n","i","c","a","l"," ","s","k","i","l","l","s">>), Str(<<"G","o","o","d"," ","p","r","o","b","l","e","m","-","s","o","l","v","i","n","g">>)>>)>>, <<<<"r","e","c","o","m","m","e","n","d","a","t","i","o","n">>, Str(<<"R","e","c","o","m","m","e","n","d"," ","f","o","r"," ","n","e","x","t"," ","r","o","u","n","d">>)>>>>)

\* this.cleanJsonResponse(content) of analyzeFeedback
FeedbackCleanedContent(resp) ==
    Sanitized(MessageContent(resp), feedbackCleanJsonResponse)

\* JSON.parse of the sanitized content: its value, or SyntaxError
FeedbackParsed(parsed) == IF parsed.ok THEN Return(parsed.val) ELSE Throw

\* the body of the try block of analyzeFeedback
analyzeFeedbackTry(resp) ==
    With(FeedbackCleanedContent(resp),
         LAMBDA cleaned : IF cleaned.kind = "throw" THEN Throw
                          ELSE FeedbackParsed(JSONParse(cleaned.value.v)))

analyzeFeedback(resp) ==
    TryCatch(analyzeFeedbackTry(resp), Return(fallbackAnalysis))

(***************************************************************************)
(* Inputs: resume texts of up to MaxLines lines, and the outcomes of a     *)
(* completion request (content is a string, null or missing).              *)
(***************************************************************************)
ResumeLines == <<
    <<>>,
    <<"J","a","n","e"," ","D","o","e">>,
    <<"j",".","d","@","e","x",".","i","o">>,
    <<"+","1"," ","(","5","5","5",")"," ","1","1","1","-","2","2","2","2">>,
    <<"l","i","n","k","e","d","i","n",".","c","o","m","/","i","n","/","j","d">>,
    <<"C","h","a","t"," ","P","r","o","j","e","c","t">>,
    <<"I"," ","k","n","o","w"," ","r","e","a","c","t"," ","a","n","d"," ","P","Y","T","H","O","N">>,
    <<"D","e","v"," ","|"," ","A","c","m","e"," ","|"," ","2","0","2","2"," ","-"," ","P","r","e","s","e","n","t">>,
    <<"D","e","v"," ","|"," ","2","0","2","2">>,
    <<"B","a","c","h","e","l","o","r"," ","o","f"," ","A","r","t","s">>,
    <<"M","I","T"," ","U","n","i","v","e","r","s","i","t","y">>,
    <<"A","W","S"," ","C","e","r","t","i","f","i","e","d">>,
    <<" "," "," "," "," "," "," "," "," "," ">> >>

Contents == <<
    <<"{","\"","n","a","m","e","\"",":","\"","X","\"","}">>,
    <<"H","e","r","e"," ","i","s"," ","t","h","e"," ","r","e","s","u","l","t",":","\n","BQ","BQ","BQ","j","s","o","n","\n","{","\"","n","a","m","e","\"",":","\"","X","\"","}","\n","BQ","BQ","BQ","\n","T","h","a","n","k","s","!">>,
    <<"{","}">>,
    <<"n","u","l","l">>,
    <<"5">>,
    <<"}","5","{">>,
    <<"}","{">>,
    <<"{","\"","n","a","m","e","\"",":">>,
    <<"n","o"," ","j","s","o","n">>,
    <<"o","n","l","y"," ","{">>,
    <<"o","n","l","y"," ","}">>,
    <<>>,
    <<"\"","s","\"">>,
    <<"[","1","]">>,
    <<"{","\"","s","k","i","l","l","s","\"",":","[","]",",","\"","e","x","p","e","r","i","e","n","c","e","\"",":","[","]",",","\"","n","a","m","e","\"",":","\"","\"","}">>,
    <<"{","\"","n","a","m","e","\"",":","5",",","\"","s","k","i","l","l","s","\"",":","\"","C","\"",",","\"","e","m","a","i","l","\"",":","n","u","l","l","}">>,
    <<"{","\"","n","a","m","e","\"",":","\"","A","l","\"",",","\"","e","m","a","i","l","\"",":","\"","a","@","b",".","c","\"",",","\"","p","h","o","n","e","\"",":","\"","1","\"",",","\"","l","i","n","k","e","d","i","n","\"",":","\"","l","\"",",","\"","s","k","i","l","l","s","\"",":","[","\"","C","\"",",","\"","R","\"",",","\"","G","o","\"","]",",","\"","e","x","p","e","r","i","e","n","c","e","\"",":","[","{","\"","t","i","t","l","e","\"",":","\"","D","e","v","\"",",","\"","c","o","m","p","a","n","y","\"",":","\"","A","c","m","e","\"","}","]",",","\"","e","d","u","c","a","t","i","o","n","\"",":","[","{","\"","d","e","g","r","e","e","\"",":","\"","B","S","\"","}","]",",","\"","c","e","r","t","i","f","i","c","a","t","i","o","n","s","\"",":","[","\"","A","W","S","\"","]",",","\"","p","r","o","j","e","c","t","s","\"",":","[","{","\"","n","a","m","e","\"",":","\"","P","\"","}","]","}">>,
    <<"{","\"","n","a","m","e","\"",":","\"","B","o","\"",",","\"","e","x","p","e","r","i","e","n","c","e","\"",":","[","n","u","l","l","]",",","\"","e","d","u","c","a","t","i","o","n","\"",":","[","5","]",",","\"","s","k","i","l","l","s","\"",":","[","n","u","l","l",",","\"","C","\"","]","}">>,
    <<"{"," ","\"","a","\""," ",":"," ","{"," ","\"","b","\""," ",":"," ","["," ","t","r","u","e"," ",","," ","f","a","l","s","e"," ","]"," ","}"," ","}"," ","d","o","n","e"," ","}">>,
    <<"{","\"","n","a","m","e","\"",":","\"","X","\"",",","\"","n","a","m","e","\"",":","\"","Y","\"","}">> >>

BriefContents == <<
    <<" "," ","A"," ","s","t","r","o","n","g"," ","c","a","n","d","i","d","a","t","e","."," ","\n">>,
    <<" "," "," ">>,
    <<>>,
    <<"G","r","e","a","t"," ","f","i","t">> >>

\* further resumes, as sequences of lines: two experience lines around a line
\* without a year, education lines in lower case and with padding, project
\* lines followed by blank lines, by skills and by a section header,
\* certification keywords in lower case
SampleResumes == <<
    << <<"Q","A"," ","|","I","n","i","t","e","c","h","|"," ","2","0","1","9","|","x">>,
       <<"a","|","b","|","c">>,
       <<"D","e","v"," ","|"," ","A","c","m","e"," ","|"," ","2","0","2","2"," ","-"," ","P","r","e","s","e","n","t">> >>,
    << <<"m","a","s","t","e","r"," ","o","f"," ","a","r","t","s">>,
       <<"M","I","T">> >>,
    << <<"M","a","s","t","e","r"," ","o","f"," ","A","r","t","s">>,
       <<" "," ","S","t","a","t","e"," ","U","n","i","v","e","r","s","i","t","y"," ">> >>,
    << <<"C","h","a","t"," ","P","r","o","j","e","c","t">>,
       <<>>,
       <<" "," "," ">>,
       <<"B","u","i","l","t"," ","w","i","t","h"," ","R","e","a","c","t">> >>,
    << <<"C","h","a","t"," ","P","r","o","j","e","c","t">>,
       <<>>,
       <<"B","u","i","l","t"," ","w","i","t","h"," ","R","e","a","c","t"," ","o","n"," ","A","W","S">>,
       <<"x">> >>,
    << <<"C","h","a","t"," ","P","r","o","j","e","c","t">>,
       <<"R","E","S","T">>,
       <<"A","P","I"," ","d","o","c","s">> >>,
    << <<"S","h","o","p"," ","p","r","o","j","e","c","t",":">>,
       <<"r","e","a","c","t"," ","p","y","t","h","o","n"," ","j","a","v","a"," ","s","q","l">> >>,
    << <<"P","r","o","j","e","c","t","s",":">>,
       <<"C","h","a","t"," ","P","r","o","j","e","c","t">>,
       <<"B","u","i","l","t"," ","i","n"," ","G","o">> >>,
    << <<"s","c","r","u","m"," ","m","a","s","t","e","r">>,
       <<"g","o","o","g","l","e"," ","c","l","o","u","d"," ","c","e","r","t","i","f","i","c","a","t","e">> >> >>

MaxLines == 2

\* the k-th smallest element of a set of line numbers
Nth(S, k) == CHOOSE i \in S : Cardinality({ j \in S : j < i }) = k - 1

\* the resume texts: the sample resume with all but at most MaxLines of its
\* lines deleted, and the further resumes
Texts ==
    { Join([k \in 1..Cardinality(S) |-> ResumeLines[Nth(S, k)]], <<"\n">>) :
        S \in { T \in SUBSET (1..Len(ResumeLines)) : Cardinality(T) <= MaxLines } }
    \cup { Join(SampleResumes[i], <<"\n">>) : i \in 1..Len(SampleResumes) }

Rejected(why) == [kind |-> "rejected", data |-> Undefined, why |-> why]
Resolved(data) == [kind |-> "resolved", data |-> data, why |-> "ok"]
NoResponse == [kind |-> "none", data |-> Undefined, why |-> "none"]

\* {choices: [{message: {content}}]}
ChatCompletion(content) ==
    Resolved(Obj(<< <<Key.choices,
        Arr(<<Obj(<< <<Key.message,
                Obj(<< <<Key.content, content>> >>)>> >>)>>)>> >>))

\* a network error, a timeout, a non-success status, an undecodable body
Rejections == <<Rejected("network"), Rejected("timeout"), Rejected("status"),
                Rejected("body")>>

\* resolved responses that carry no string content
Malformed == <<
    Resolved(Str(<<"<","h","t","m","l",">">>)),
    Resolved(Null),
    Resolved(Obj(<<>>)),
    Resolved(Obj(<< <<Key.choices, Arr(<<>>)>> >>)),
    Resolved(Obj(<< <<Key.choices,
        Arr(<<Obj(<< <<Key.message, Obj(<<>>)>> >>)>>)>> >>)),
    ChatCompletion(Null),
    ChatCompletion(Num(5)) >>

WithContent(cs) == [i \in 1..Len(cs) |-> ChatCompletion(Str(cs[i]))]

ExtractResponses == Rejections \o Malformed \o WithContent(Contents)
BriefResponses == Rejections \o Malformed \o WithContent(BriefContents)

\* the responses of the extractions whose records generateCandidateBrief is
\* handed: a failed one, and four with content
BriefRecordResponses ==
    <<Rejected("network")>>
    \o WithContent(<<Contents[3], Contents[15], Contents[17], Contents[18]>>)

(***************************************************************************)
(* The exported singleton (module.exports = new NLPService()) and the      *)
(* invocations made on it.  An invocation keeps its resumeText, request,   *)
(* response and completion in its own frame; the singleton's fields are    *)
(* the only state invocations share.                                       *)
(***************************************************************************)
MaxCalls == 2

CallIds == 1..MaxCalls

\* this.apiKey = keys.deepSeekApiKey; this.apiUrl = keys.deepSeekApiUrl
NewService == [apiKey |-> "deepSeekApiKey", apiUrl |-> "deepSeekApiUrl"]

NoRequest == [url |-> "", authorization |-> ""]

\* axios.post(this.apiUrl, ..., {headers: {Authorization: Bearer this.apiKey}})
PostRequest(svc) == [url |-> svc.apiUrl, authorization |-> svc.apiKey]

NoCall ==
    [ op |-> "none", pc |-> "idle", resumeText |-> <<>>,
      request |-> NoRequest, response |-> NoResponse, completion |-> Pending,
      during |-> {} ]

\* the texts and responses of the invocations made on the singleton
CallTexts == <<ResumeLines[1], ResumeLines[2], ResumeLines[3]>>

CallResponses ==
    <<Rejected("network"), ChatCompletion(Str(Contents[1])),
      ChatCompletion(Str(Contents[9]))>>

\* the invocations suspended at their request
Suspended == { k \in CallIds : calls[k].pc = "requesting" }

\* a faulty frame: the resumeText of the first invocation, kept on the service
ResumeTextOfFirst(k) == calls[1].resumeText

\* the resumeText parameter the continuation of invocation k closes over
ResumeTextOf(k) == calls[k].resumeText

(***************************************************************************)
(* The api client of the front end and AuthService.  A token stands for    *)
(* the header `Bearer <token>` as well; Absent is a missing localStorage   *)
(* item (getItem returns null) and a missing header.                       *)
(***************************************************************************)
MaxInflight == 2

Tokens == {"token1", "token2"}
Absent == "absent"

RequestKinds == {"login", "register", "other"}

NoneInflight == [kind \in RequestKinds |-> 0]

InflightTotal == inflight["login"] + inflight["register"] + inflight["other"]

(***************************************************************************)
(* The state machine: one invocation of one method of the service.         *)
(***************************************************************************)
Init ==
    /\ text = <<>>
    /\ op = "none"
    /\ pc = "idle"
    /\ requests = 0
    /\ response = NoResponse
    /\ cleanedContent = Throw
    /\ completion = Pending
    /\ resumeData = Undefined
    /\ service = NewService
    /\ calls = [k \in CallIds |-> NoCall]
    /\ storage = [token |-> Absent, user |-> Absent]
    /\ defaults = Absent
    /\ inflight = NoneInflight
    /\ navigating = FALSE
    /\ cleared = Absent
    /\ sentSince = {}
    /\ scheduling = [ pc |-> "idle", startDate |-> [day |-> 0, time |-> 0],
                      daysAhead |-> 0, slots |-> <<>> ]

\* extractFallbackData(resumeText), called directly
CallExtractFallbackData ==
    /\ pc = "idle"
    /\ \E t \in Texts :
        /\ text' = t
        /\ completion' = Return(extractFallbackData(t))
    /\ op' = "extractFallbackData"
    /\ pc' = "returned"
    /\ UNCHANGED <<requests, response, cleanedContent, resumeData>>
    /\ UNCHANGED <<serviceVars, authVars, scheduling>>

\* extractResumeData up to its await: the prompt is built, the request issued
CallExtractResumeData ==
    /\ pc = "idle"
    /\ \E t \in Texts : text' = t
    /\ op' = "extractResumeData"
    /\ pc' = "requesting"
    /\ requests' = requests + 1
    /\ UNCHANGED <<response, cleanedContent, completion, resumeData>>
    /\ UNCHANGED <<serviceVars, authVars, scheduling>>

\* the awaited request settles: the rest of the try block, or the catch block
SettleExtractResumeData ==
    /\ op = "extractResumeData"
    /\ pc = "requesting"
    /\ \E i \in 1..Len(ExtractResponses) : response' = ExtractResponses[i]
    /\ cleanedContent' = CleanedContent(response')
    /\ completion' = extractResumeData(text, response')
    /\ pc' = IF completion'.via = "catch" THEN "failed" ELSE "succeeded"
    /\ UNCHANGED <<text, op, requests, resumeData>>
    /\ UNCHANGED <<serviceVars, authVars, scheduling>>

\* generateCandidateBrief(resumeData) up to its await, resumeData being what an
\* extraction returned: the prompt is built and, unless that throws, the
\* request issued
CallGenerateCandidateBrief ==
    /\ pc = "idle"
    /\ \E t \in Texts : text' = t
    /\ \E i \in 1..Len(BriefRecordResponses) :
          resumeData' = extractResumeData(text', BriefRecordResponses[i]).value
    /\ op' = "generateCandidateBrief"
    /\ IF PromptThrows(resumeData')
       THEN /\ pc' = "threw"
            /\ completion' = Throw
            /\ requests' = requests
       ELSE /\ pc' = "requesting"
            /\ requests' = requests + 1
            /\ completion' = completion
    /\ UNCHANGED <<response, cleanedContent>>
    /\ UNCHANGED <<serviceVars, authVars, scheduling>>

SettleGenerateCandidateBrief ==
    /\ op = "generateCandidateBrief"
    /\ pc = "requesting"
    /\ \E i \in 1..Len(BriefResponses) : response' = BriefResponses[i]
    /\ completion' = generateCandidateBrief(resumeData, response')
    /\ pc' = IF completion'.via = "catch" THEN "failed" ELSE "succeeded"
    /\ UNCHANGED <<text, op, requests, cleanedContent, resumeData>>
    /\ UNCHANGED <<serviceVars, authVars, scheduling>>

\* analyzeFeedback up to its await (the feedback text only enters the prompt)
CallAnalyzeFeedback ==
    /\ pc = "idle"
    /\ op' = "analyzeFeedback"
    /\ pc' = "requesting"
    /\ requests' = requests + 1
    /\ UNCHANGED <<text, response, cleanedContent, completion, resumeData>>
    /\ UNCHANGED <<serviceVars, authVars, scheduling>>

SettleAnalyzeFeedback ==
    /\ op = "analyzeFeedback"
    /\ pc = "requesting"
    /\ \E i \in 1..Len(ExtractResponses) : response' = ExtractResponses[i]
    /\ cleanedContent' = FeedbackCleanedContent(response')
    /\ completion' = analyzeFeedback(response')
    /\ pc' = IF completion'.via = "catch" THEN "failed" ELSE "succeeded"
    /\ UNCHANGED <<text, op, requests, resumeData>>
    /\ UNCHANGED <<serviceVars, authVars, scheduling>>

Next ==
    \/ CallExtractFallbackData
    \/ CallExtractResumeData
    \/ SettleExtractResumeData
    \/ CallGenerateCandidateBrief
    \/ SettleGenerateCandidateBrief
    \/ CallAnalyzeFeedback
    \/ SettleAnalyzeFeedback

Spec == Init /\ [][Next]_vars

(***************************************************************************)
(* Invocations on the shared singleton, in any interleaving.  The          *)
(* synchronous extractFallbackData runs to completion in one step; an      *)
(* extractResumeData invocation is suspended at its await and resumes when *)
(* its own request settles.                                                *)
(***************************************************************************)
InvokeExtractFallbackData(k) ==
    /\ calls[k].pc = "idle"
    /\ \E i \in 1..Len(CallTexts) :
        calls' = [calls EXCEPT ![k] =
            [ op |-> "extractFallbackData", pc |-> "returned",
              resumeText |-> CallTexts[i], request |-> NoRequest,
              response |-> NoResponse,
              completion |-> Return(extractFallbackData(CallTexts[i])),
              during |-> Suspended ]]
    /\ UNCHANGED <<service, invocationVars, authVars, scheduling>>

InvokeExtractResumeData(k) ==
    /\ calls[k].pc = "idle"
    /\ \E i \in 1..Len(CallTexts) :
        calls' = [calls EXCEPT ![k] =
            [ op |-> "extractResumeData", pc |-> "requesting",
              resumeText |-> CallTexts[i], request |-> PostRequest(service),
              response |-> NoResponse, completion |-> Pending,
              during |-> Suspended ]]
    /\ UNCHANGED <<service, invocationVars, authVars, scheduling>>

ResumeExtractResumeData(k) ==
    /\ calls[k].pc = "requesting"
    /\ \E i \in 1..Len(CallResponses) :
        With(extractResumeData(ResumeTextOf(k), CallResponses[i]),
             LAMBDA done :
                calls' = [calls EXCEPT ![k] =
                    [ @ EXCEPT
                        !.response = CallResponses[i],
                        !.completion = done,
                        !.pc = IF done.via = "catch" THEN "failed"
                               ELSE "succeeded" ]])
    /\ UNCHANGED <<service, invocationVars, authVars, scheduling>>

ServiceNext ==
    \E k \in CallIds :
        \/ InvokeExtractFallbackData(k)
        \/ InvokeExtractResumeData(k)
        \/ ResumeExtractResumeData(k)

ServiceSpec == Init /\ [][ServiceNext]_vars

(***************************************************************************)
(* The api client and AuthService in the browser: calls are sent through   *)
(* the request interceptor, answered later, and a 401 answer passes the    *)
(* response interceptor.                                                   *)
(***************************************************************************)
\* the Authorization header of a request sent now: the defaults merged into
\* the request, then overwritten by the interceptor if a token is stored
RequestHeader == IF storage.token # Absent THEN storage.token ELSE defaults

\* api.post / api.get / api.patch: the request leaves with its headers
Send(kind) ==
    /\ InflightTotal < MaxInflight
    /\ inflight' = [inflight EXCEPT ![kind] = @ + 1]
    /\ sentSince' = sentSince \cup {RequestHeader}
    /\ UNCHANGED <<storage, defaults, navigating, cleared>>

\* AuthService.setAuthToken(token), '' being the falsy token: what it leaves
\* in localStorage and in the default headers
StorageAfterSetAuthToken(token) ==
    [storage EXCEPT !.token = IF token # "" THEN token ELSE Absent]

DefaultsAfterSetAuthToken(token) == IF token # "" THEN token ELSE Absent

\* the rest of login and register once the awaited post is answered with
\* response.data: on success the token and the user are stored
Authenticated(kind) ==
    /\ inflight[kind] > 0
    /\ inflight' = [inflight EXCEPT ![kind] = @ - 1]
    /\ \/ \E token \in Tokens :
            /\ storage' = [StorageAfterSetAuthToken(token)
                               EXCEPT !.user = "user"]
            /\ defaults' = DefaultsAfterSetAuthToken(token)
            /\ cleared' = Absent
            /\ sentSince' = {}
       \/ UNCHANGED <<storage, defaults, cleared, sentSince>>
    /\ UNCHANGED navigating

CallLogin == Send("login") /\ UNCHANGED <<invocationVars, serviceVars, scheduling>>

CallRegister == Send("register") /\ UNCHANGED <<invocationVars, serviceVars, scheduling>>

\* any other call of a service of the front end through the api client
CallApi == Send("other") /\ UNCHANGED <<invocationVars, serviceVars, scheduling>>

LoginResponds ==
    Authenticated("login") /\ UNCHANGED <<invocationVars, serviceVars, scheduling>>

RegisterResponds ==
    Authenticated("register") /\ UNCHANGED <<invocationVars, serviceVars, scheduling>>

\* a response other than 401 to another call: nothing is stored
ApiResponds ==
    /\ inflight["other"] > 0
    /\ inflight' = [inflight EXCEPT !["other"] = @ - 1]
    /\ UNCHANGED <<storage, defaults, navigating, cleared, sentSince>>
    /\ UNCHANGED <<invocationVars, serviceVars, scheduling>>

\* the response interceptor on a 401 answer to any request
Handle401 ==
    /\ \E kind \in RequestKinds :
        /\ inflight[kind] > 0
        /\ inflight' = [inflight EXCEPT ![kind] = @ - 1]
    /\ storage' = [token |-> Absent, user |-> Absent]
    /\ navigating' = TRUE
    /\ cleared' = IF storage.token # Absent THEN storage.token ELSE cleared
    /\ sentSince' = {}
    /\ UNCHANGED defaults
    /\ UNCHANGED <<invocationVars, serviceVars, scheduling>>

\* AuthService.setAuthToken called by the application
CallSetAuthToken ==
    /\ \E token \in Tokens \cup {""} :
        /\ storage' = StorageAfterSetAuthToken(token)
        /\ defaults' = DefaultsAfterSetAuthToken(token)
        /\ IF token # ""
           THEN cleared' = Absent /\ sentSince' = {}
           ELSE UNCHANGED <<cleared, sentSince>>
    /\ UNCHANGED <<inflight, navigating>>
    /\ UNCHANGED <<invocationVars, serviceVars, scheduling>>

\* AuthService.logout()
Logout ==
    /\ storage' = [StorageAfterSetAuthToken("") EXCEPT !.user = Absent]
    /\ defaults' = DefaultsAfterSetAuthToken("")
    /\ cleared' = IF storage.token # Absent THEN storage.token ELSE cleared
    /\ sentSince' = {}
    /\ UNCHANGED <<inflight, navigating>>
    /\ UNCHANGED <<invocationVars, serviceVars, scheduling>>

\* the page assigned to window.location.href loads: the module is evaluated
\* anew, localStorage persists
PageLoad ==
    /\ navigating
    /\ navigating' = FALSE
    /\ defaults' = Absent
    /\ inflight' = NoneInflight
    /\ UNCHANGED <<storage, cleared, sentSince>>
    /\ UNCHANGED <<invocationVars, serviceVars, scheduling>>

AuthNext ==
    \/ CallLogin
    \/ CallRegister
    \/ CallApi
    \/ LoginResponds
    \/ RegisterResponds
    \/ ApiResponds
    \/ Handle401
    \/ CallSetAuthToken
    \/ Logout
    \/ PageLoad

AuthSpec == Init /\ [][AuthNext]_vars

(***************************************************************************)
(* InterviewSchedulingService.generateInterviewSlots.  A Date is its local *)
(* day number since 1 January 1970 and its milliseconds within the day     *)
(* (Day(t) and TimeWithinDay(t) of the local time value; the time zone has *)
(* no transition between the hours touched).  Months count from 0.         *)
(***************************************************************************)
MaxDaysAhead == 8

\* start dates from Saturday 24 February to Friday 1 March 2024 and around
\* the end of 2023, at midnight, at 09:00, at 12:34:56.789, at 23:59:59.999
StartDates ==
    { [day |-> d, time |-> ms] :
        d \in (19777..19783) \cup {19720, 19722},
        ms \in {0, 32400000, 45296789, 86399999} }

\* the day number of 1 January of year y
DayFromYear(y) ==
    365 * (y - 1970) + ((y - 1969) \div 4) - ((y - 1901) \div 100)
        + ((y - 1601) \div 400)

YearFromDay(d) ==
    CHOOSE y \in 1970..2100 : DayFromYear(y) <= d /\ d < DayFromYear(y + 1)

\* the day within year y on which month m begins
MonthStart(y, m) ==
    <<0, 31, 59, 90, 120, 151, 181, 212, 243, 273, 304, 334>>[m + 1]
        + (IF m >= 2 /\ DayFromYear(y + 1) - DayFromYear(y) = 366 THEN 1 ELSE 0)

MonthFromDay(d) ==
    CHOOSE m \in 0..11 :
        /\ MonthStart(YearFromDay(d), m) <= d - DayFromYear(YearFromDay(d))
        /\ \A n \in (m + 1)..11 :
              MonthStart(YearFromDay(d), n) > d - DayFromYear(YearFromDay(d))

\* the day number of the date-th day of month m of year y, date running past
\* the end of the month into the months that follow
MakeDay(y, m, date) == DayFromYear(y) + MonthStart(y, m) + date - 1

\* Date.prototype.getDay(): 0 is Sunday; 1 January 1970 was a Thursday
getDay(date) == (date.day + 4) % 7

\* currentDate.setDate(currentDate.getDate() + 1)
setDateToNext(date) ==
    [date EXCEPT !.day =
        MakeDay(YearFromDay(date.day), MonthFromDay(date.day),
                (date.day - DayFromYear(YearFromDay(date.day))
                   - MonthStart(YearFromDay(date.day), MonthFromDay(date.day))
                   + 1) + 1)]

\* slot.setHours(hour, 0, 0, 0)
setHours(date, hour) == [date EXCEPT !.time = hour * 3600000]

RECURSIVE SlotsCountingWeekdays(_, _, _)
\* a faulty loop: a weekend day is skipped without being counted
SlotsCountingWeekdays(currentDate, day, daysAhead) ==
    IF day >= daysAhead THEN <<>>
    ELSE IF getDay(currentDate) = 0 \/ getDay(currentDate) = 6
    THEN SlotsCountingWeekdays(setDateToNext(currentDate), day, daysAhead)
    ELSE [h \in 1..6 |-> setHours(currentDate, <<9, 10, 11, 14, 15, 16>>[h])]
         \o SlotsCountingWeekdays(setDateToNext(currentDate), day + 1,
                                  daysAhead)

RECURSIVE SlotsFrom(_, _, _)
\* the for loop from its iteration `day` on: what it pushes
SlotsFrom(currentDate, day, daysAhead) ==
    IF day >= daysAhead THEN <<>>
    ELSE IF getDay(currentDate) = 0 \/ getDay(currentDate) = 6
    THEN SlotsFrom(setDateToNext(currentDate), day + 1, daysAhead)
    ELSE [h \in 1..6 |-> setHours(currentDate, <<9, 10, 11, 14, 15, 16>>[h])]
         \o SlotsFrom(setDateToNext(currentDate), day + 1, daysAhead)

generateInterviewSlots(startDate, daysAhead) ==
    SlotsFrom(startDate, 0, daysAhead)

\* one call, from its arguments to its return value
CallGenerateInterviewSlots ==
    /\ scheduling.pc = "idle"
    /\ \E startDate \in StartDates : \E daysAhead \in 0..MaxDaysAhead :
        scheduling' =
            [ pc |-> "returned", startDate |-> startDate,
              daysAhead |-> daysAhead,
              slots |-> generateInterviewSlots(startDate, daysAhead) ]
    /\ UNCHANGED <<invocationVars, serviceVars, authVars>>

SchedulingSpec == Init /\ [][CallGenerateInterviewSlots]_vars

(***************************************************************************)
(* Properties.                                                             *)
(***************************************************************************)
RecordFields ==
    {"name", "email", "phone", "linkedin", "skills", "experience",
     "education", "certifications", "projects"}

NonEmptyString(x) == x.t = "str" /\ Len(x.v) > 0
NonEmptyArray(x) == x.t = "arr" /\ Len(x.v) > 0

\* the fields the record contract requires to be populated
Populated(rd) ==
    /\ NonEmptyString(rd.name)
    /\ NonEmptyString(rd.email)
    /\ NonEmptyString(rd.phone)
    /\ NonEmptyArray(rd.skills)
    /\ NonEmptyArray(rd.experience)
    /\ NonEmptyArray(rd.education)
    /\ NonEmptyArray(rd.projects)

FallbackReturned == op = "extractFallbackData" /\ pc = "returned"
ExtractSettled == op = "extractResumeData" /\ pc \in {"succeeded", "failed"}
BriefSettled == op = "generateCandidateBrief" /\ pc \in {"succeeded", "failed"}

\* C1: for every text, the empty one included, extractFallbackData returns
\* without raising and the record has a non-empty name, email and phone and
\* non-empty skills, experience, education and projects sequences.
C1_FallbackTotal ==
    FallbackReturned =>
        /\ completion.kind = "return"
        /\ DOMAIN completion.value = RecordFields
        /\ Populated(completion.value)

\* the fallback has returned for a text of blank characters only
C1_Witness ==
    /\ FallbackReturned
    /\ Len(text) > 0
    /\ Trim(text) = <<>>
    /\ completion.value.name = Str(Lit.Unknown)

\* C2: every record extractResumeData returns, on the primary path and on the
\* fallback path, has name, email and phone non-empty strings and skills,
\* experience, education and projects non-empty sequences.
C2_EveryFieldPopulated ==
    (ExtractSettled /\ completion.kind = "return") =>
        Populated(completion.value)

\* the request failed in one of the ways the contract lists: it was rejected
\* (non-success status, exception), the body was not decoded, the message
\* content is missing, or the sanitized content is not valid JSON
RequestFailed ==
    \/ response.kind = "rejected"
    \/ cleanedContent.kind = "throw"
    \/ ~JSONParse(cleanedContent.value.v).ok

\* C3: whenever the request of extractResumeData(text) fails, the value
\* returned is exactly extractFallbackData(text) and no error reaches the
\* caller.
C3_FailureDelegates ==
    (ExtractSettled /\ RequestFailed) =>
        /\ completion.kind = "return"
        /\ completion.value = extractFallbackData(text)

\* content that is not valid JSON after sanitization, for a text the fallback
\* extracts a name from
C3_Witness ==
    /\ ExtractSettled
    /\ response.kind = "resolved"
    /\ cleanedContent.kind = "return"
    /\ ~JSONParse(cleanedContent.value.v).ok
    /\ completion.value.name # Str(Lit.Unknown)

\* C4: on the success path every field absent from the decoded object has the
\* value extractFallbackData('') gives it.
C4_AbsentFieldsAsFallback ==
    (op = "extractResumeData" /\ pc = "succeeded") =>
        \A f \in RecordFields :
            Get(JSONParse(cleanedContent.value.v).val, Key[f]) = Undefined
                => completion.value[f] = extractFallbackData(<<>>)[f]

\* C5: for every text and every outcome of the request, extractResumeData
\* returns a record and never throws to the caller.
C5_NeverThrows ==
    ExtractSettled =>
        /\ completion.kind = "return"
        /\ DOMAIN completion.value = RecordFields

\* the content decodes to null: reading parsedData.name raises inside the try
C5_Witness ==
    /\ ExtractSettled
    /\ cleanedContent = Return(Str(Lit.null))
    /\ completion.via = "catch"
    /\ completion.kind = "return"

\* C6: every invocation of extractResumeData and of generateCandidateBrief
\* that has ended issued exactly one request and is in Succeeded or Failed;
\* none is issued by the fallback pipeline, and none before Requesting.
C6_OneRequestPerInvocation ==
    /\ (op \in {"extractResumeData", "generateCandidateBrief"}
            /\ pc \notin {"idle", "requesting"})
         => (requests = 1 /\ pc \in {"succeeded", "failed"})
    /\ pc = "requesting" => requests = 1
    /\ op = "extractFallbackData" => requests = 0

\* the content string the sanitizer was given
SanitizerInput == MessageContent(response).value.v

\* C7: for a content with a '{' and a '}', cleanJsonResponse returns the slice
\* from the first '{' to the last '}' inclusive, which begins with '{' and ends
\* with '}'; otherwise it returns the content unchanged.
C7_SliceFirstToLast ==
    (pc \in {"succeeded", "failed"} /\ cleanedContent.kind = "return") =>
        LET c == SanitizerInput
            r == cleanedContent.value.v
            opens == { i \in 1..Len(c) : c[i] = "{" }
            closes == { i \in 1..Len(c) : c[i] = "}" }
        IN  IF opens # {} /\ closes # {}
            THEN /\ r = SubSeq(c, Min(opens), Max(closes))
                 /\ Len(r) > 0
                 /\ r[1] = "{"
                 /\ r[Len(r)] = "}"
            ELSE r = c

\* w occurs in t, the case of the letters ignored
OccursIgnoringCase(t, w) ==
    \E i \in 0..(Len(t) - Len(w)) :
        \A k \in 1..Len(w) : LowerChar(t[i + k]) = LowerChar(w[k])

\* C8: extractSkillsFromText returns exactly the taxonomy entries that occur in
\* the text ignoring case, each once and in taxonomy order, and the default
\* triple when none occurs.
C8_SkillsInTaxonomyOrder ==
    FallbackReturned =>
        LET found == { i \in 1..Len(technicalSkills) :
                         OccursIgnoringCase(text, technicalSkills[i]) }
            skills == completion.value.skills.v
        IN  IF found = {}
            THEN skills = << Str(<<"J","a","v","a","S","c","r","i","p","t">>),
                             Str(<<"R","e","a","c","t">>),
                             Str(<<"N","o","d","e",".","j","s">>) >>
            ELSE /\ Len(skills) = Cardinality(found)
                 /\ \A k \in 1..Len(skills) :
                        skills[k] = Str(technicalSkills[Nth(found, k)])

\* "react" precedes "PYTHON" in the text, Python precedes React in the result
C8_Witness ==
    /\ FallbackReturned
    /\ IndexOf(text, <<"r","e","a","c","t">>) # -1
    /\ IndexOf(text, <<"r","e","a","c","t">>)
         < IndexOf(text, <<"P","Y","T","H","O","N">>)
    /\ \E i, j \in 1..Len(completion.value.skills.v) :
        /\ i < j
        /\ completion.value.skills.v[i] = Str(<<"P","y","t","h","o","n">>)
        /\ completion.value.skills.v[j] = Str(Lit.React)

\* C9: generateCandidateBrief returns a non-empty string whenever its request
\* has settled: the trimmed content on success, the templated sentence on any
\* failure, missing content included.
C9_BriefNonEmpty ==
    BriefSettled =>
        /\ completion.kind = "return"
        /\ NonEmptyString(completion.value)

\* C10: extractFallbackData('') returns the sentinels, the default skills, one
\* placeholder experience, education and project entry, and no certification.
C10_EmptyTextSentinels ==
    (FallbackReturned /\ text = <<>>) =>
        completion.value =
            [ name |-> Str(Lit.Unknown),
              email |-> Str(Lit.UnknownEmail),
              phone |-> Str(Lit.NotProvided),
              linkedin |-> Str(<<>>),
              skills |-> Arr(<<Str(Lit.JavaScript), Str(Lit.React),
                               Str(Lit.NodeJs)>>),
              experience |-> Arr(<<Obj(<<
                  <<Key.title, Str(Lit.SoftwareEngineer)>>,
                  <<Key.company, Str(Lit.TechCompany)>>,
                  <<Key.duration, Str(Lit.Since2021)>>,
                  <<Key.description, Str(Lit.ExpPlaceholderDescription)>> >>)>>),
              education |-> Arr(<<Obj(<<
                  <<Key.degree, Str(Lit.BachelorOfScience)>>,
                  <<Key.school, Str(Lit.University)>>,
                  <<Key.year, Str(Lit.Year2020)>>,
                  <<Key.cgpa, Str(Lit.Cgpa)>>,
                  <<Key.stream, Str(Lit.ComputerScience)>> >>)>>),
              certifications |-> Arr(<<>>),
              projects |-> Arr(<<Obj(<<
                  <<Key.name, Str(Lit.WebApplication)>>,
                  <<Key.description, Str(Lit.ProjPlaceholderDescription)>>,
                  <<Key.technologies,
                    Arr(<<Str(Lit.React), Str(Lit.NodeJs),
                          Str(Lit.MongoDB)>>)>> >>)>>) ]

\* the fallback has returned for the empty text
C10_Witness == FallbackReturned /\ text = <<>>

\* the k-th character of w (1-based), "" outside it
Ch(w, k) == IF k \in 1..Len(w) THEN w[k] ELSE ""

\* w has the shape of the phone pattern: an optional '+', an optional digit
\* 1..9, an optional separator, then ten or more digits and separators
IsPhone(w) ==
    \E a, b, c \in {0, 1} :
        /\ a = 1 => Ch(w, 1) = "+"
        /\ b = 1 => Ch(w, a + 1) \in (DigitChars \ {"0"})
        /\ c = 1 => Ch(w, a + b + 1) \in PhoneSeparators
        /\ Len(w) - (a + b + c) >= 10
        /\ \A k \in (a + b + c + 1)..Len(w) : w[k] \in PhoneClass

\* w is the first match of a pattern in t: it occurs at some position p, no
\* substring beginning before p has the shape, and no longer one beginning at p
FirstMatch(t, w, Is(_)) ==
    \E p \in 0..(Len(t) - Len(w)) :
        /\ SubSeq(t, p + 1, p + Len(w)) = w
        /\ Is(w)
        /\ \A i \in 0..(p - 1) : \A j \in (i + 1)..Len(t) :
               ~Is(SubSeq(t, i + 1, j))
        /\ \A j \in (p + Len(w) + 1)..Len(t) : ~Is(SubSeq(t, p + 1, j))

DigitCount(w) == Cardinality({ k \in 1..Len(w) : w[k] \in DigitChars })

\* C11: whenever the phone extractFallbackData returns is not 'Not provided',
\* it is the first substring of the text matching the phone pattern and it
\* contains at least 10 digit characters.
C11_PhoneTenDigits ==
    (FallbackReturned /\ completion.value.phone.v # Lit.NotProvided) =>
        /\ FirstMatch(text, completion.value.phone.v, IsPhone)
        /\ DigitCount(completion.value.phone.v) >= 10

\* w has the shape local-part@domain.tld: characters of [\w.-], an '@',
\* characters of [\w.-], a '.', word characters, none of the parts empty
IsEmail(w) ==
    \E a \in 2..Len(w) :
        /\ w[a] = "@"
        /\ \A k \in 1..(a - 1) : w[k] \in EmailClass
        /\ \E d \in (a + 2)..(Len(w) - 1) :
            /\ w[d] = "."
            /\ \A k \in (a + 1)..(d - 1) : w[k] \in EmailClass
            /\ \A k \in (d + 1)..Len(w) : w[k] \in WordChars

\* w has the shape linkedin.com/in/<handle>, the case of the letters ignored,
\* the handle a non-empty run of word characters and hyphens
IsLinkedin(w) ==
    /\ Len(w) > Len(Lit.LinkedinPrefix)
    /\ \A k \in 1..Len(Lit.LinkedinPrefix) :
           LowerChar(w[k]) = Lit.LinkedinPrefix[k]
    /\ \A k \in (Len(Lit.LinkedinPrefix) + 1)..Len(w) :
           w[k] \in WordChars \cup {"-"}

\* some substring of t has the shape
HasMatch(t, Is(_)) ==
    \E i \in 0..(Len(t) - 1) : \E j \in (i + 1)..Len(t) :
        Is(SubSeq(t, i + 1, j))

\* the field is the sentinel when t holds no match, else built on the first
FieldIs(t, w, Is(_), sentinel, prefix) ==
    IF HasMatch(t, Is)
    THEN /\ Len(w) >= Len(prefix)
         /\ SubSeq(w, 1, Len(prefix)) = prefix
         /\ FirstMatch(t, SubSeq(w, Len(prefix) + 1, Len(w)), Is)
    ELSE w = sentinel

\* the name is the first line that is non-empty after trimming, trimmed
NameIs(t, w) ==
    IF \E i \in 1..Len(Split(t, "\n")) : Trim(Split(t, "\n")[i]) # <<>>
    THEN \E i \in 1..Len(Split(t, "\n")) :
            /\ w = Trim(Split(t, "\n")[i])
            /\ w # <<>>
            /\ \A k \in 1..(i - 1) : Trim(Split(t, "\n")[k]) = <<>>
    ELSE w = Lit.Unknown

\* C12: in extractFallbackData each contact field is its sentinel when the text
\* holds no match and otherwise the first match: name the first line that is
\* non-empty after trimming (else 'Unknown'), email the first
\* local-part@domain.tld substring (else 'unknown@email.com'), phone the first
\* match of the phone pattern (else 'Not provided'), linkedin 'https://' and
\* the first linkedin.com/in/<handle> substring (else the empty string).
C12_ContactFields ==
    FallbackReturned =>
        /\ NameIs(text, completion.value.name.v)
        /\ FieldIs(text, completion.value.email.v, IsEmail,
                   Lit.UnknownEmail, <<>>)
        /\ FieldIs(text, completion.value.phone.v, IsPhone,
                   Lit.NotProvided, <<>>)
        /\ FieldIs(text, completion.value.linkedin.v, IsLinkedin,
                   <<>>, Lit.Https)

\* a text with a name line, an email and a profile address, the email not at
\* the start of the text
C12_Witness ==
    /\ FallbackReturned
    /\ completion.value.name.v # Lit.Unknown
    /\ completion.value.email.v # Lit.UnknownEmail
    /\ IndexOf(text, completion.value.email.v) > 0
    /\ completion.value.phone.v = Lit.NotProvided

\* w occurs in t, the case of the letters kept
Occurs(t, w) ==
    \E i \in 0..(Len(t) - Len(w)) : \A k \in 1..Len(w) : t[i + k] = w[k]

Pipes(line) == { k \in 1..Len(line) : line[k] = "|" }

\* the n-th segment (from 0) of a line between its '|' characters, trimmed
Segment(line, n) ==
    Trim(SubSeq(line,
                IF n = 0 THEN 1 ELSE Nth(Pipes(line), n) + 1,
                IF n = Cardinality(Pipes(line)) THEN Len(line)
                ELSE Nth(Pipes(line), n + 1) - 1))

\* the line holds a '|', one of the years 2019..2023 or 'Present', and at
\* least three segments
Qualifies(line) ==
    /\ Cardinality(Pipes(line)) >= 2
    /\ \/ \E y \in {<<"2","0","1","9">>, <<"2","0","2","0">>,
                    <<"2","0","2","1">>, <<"2","0","2","2">>,
                    <<"2","0","2","3">>} : Occurs(line, y)
       \/ Occurs(line, <<"P","r","e","s","e","n","t">>)

\* the entries are those of the qualifying lines, in text order
ExperienceIs(lines, experience) ==
    IF \E i \in 1..Len(lines) : Qualifies(lines[i])
    THEN /\ Len(experience)
              = Cardinality({ i \in 1..Len(lines) : Qualifies(lines[i]) })
         /\ \A k \in 1..Len(experience) :
              /\ Get(experience[k], Key.title) = Str(Segment(
                    lines[Nth({ i \in 1..Len(lines) : Qualifies(lines[i]) }, k)], 0))
              /\ Get(experience[k], Key.company) = Str(Segment(
                    lines[Nth({ i \in 1..Len(lines) : Qualifies(lines[i]) }, k)], 1))
              /\ Get(experience[k], Key.duration) = Str(Segment(
                    lines[Nth({ i \in 1..Len(lines) : Qualifies(lines[i]) }, k)], 2))
    ELSE /\ Len(experience) = 1
         /\ Get(experience[1], Key.title) = Str(Lit.SoftwareEngineer)
         /\ Get(experience[1], Key.company) = Str(Lit.TechCompany)
         /\ Get(experience[1], Key.duration) = Str(Lit.Since2021)
         /\ Get(experience[1], Key.description)
              = Str(Lit.ExpPlaceholderDescription)

\* C13: extractExperienceFromText returns one entry per line that holds '|',
\* one of the years 2019..2023 or 'Present', and at least 3 segments between
\* '|'; the entries are in text order with title, company and duration the
\* trimmed segments 0, 1 and 2; a line of fewer segments contributes nothing;
\* when no line qualifies the result is the single fixed placeholder entry.
C13_ExperienceEntries ==
    FallbackReturned =>
        ExperienceIs(Split(text, "\n"), completion.value.experience.v)

\* two qualifying lines around a line of three segments without a year
C13_Witness ==
    /\ FallbackReturned
    /\ Len(Split(text, "\n")) = 3
    /\ Cardinality(Pipes(Split(text, "\n")[2])) = 2
    /\ Len(completion.value.experience.v) = 2
    /\ Get(completion.value.experience.v[1], Key.title) = Str(<<"Q","A">>)
    /\ Get(completion.value.experience.v[2], Key.title) = Str(<<"D","e","v">>)

FallbackCalls ==
    { k \in CallIds : calls[k].op = "extractFallbackData"
                        /\ calls[k].pc = "returned" }

ExtractCalls ==
    { k \in CallIds : calls[k].op = "extractResumeData"
                        /\ calls[k].pc \in {"succeeded", "failed"} }

NamesEducation(line) ==
    \/ OccursIgnoringCase(line, <<"b","a","c","h","e","l","o","r">>)
    \/ OccursIgnoringCase(line, <<"m","a","s","t","e","r">>)
    \/ OccursIgnoringCase(line, <<"u","n","i","v","e","r","s","i","t","y">>)

FixedEducation(entry) ==
    /\ Get(entry, Key.year) = Str(<<"2","0","2","0">>)
    /\ Get(entry, Key.cgpa) = Str(<<"3",".","5">>)
    /\ Get(entry, Key.stream)
         = Str(<<"C","o","m","p","u","t","e","r"," ","S","c","i","e","n","c","e">>)

\* the entry is derived from line i and the line after it
EducationFrom(lines, i, entry) ==
    /\ Get(entry, Key.degree) =
         Str(IF Occurs(lines[i], <<"B","a","c","h","e","l","o","r">>)
             THEN <<"B","a","c","h","e","l","o","r"," ","o","f"," ","S","c","i","e","n","c","e">>
             ELSE IF Occurs(lines[i], <<"M","a","s","t","e","r">>)
             THEN <<"M","a","s","t","e","r"," ","o","f"," ","S","c","i","e","n","c","e">>
             ELSE <<"D","e","g","r","e","e">>)
    /\ Get(entry, Key.school) =
         Str(IF /\ i < Len(lines)
                /\ Occurs(lines[i + 1], <<"U","n","i","v","e","r","s","i","t","y">>)
             THEN Trim(lines[i + 1])
             ELSE <<"U","n","i","v","e","r","s","i","t","y">>)
    /\ FixedEducation(entry)

EducationIs(lines, education) ==
    /\ Len(education) = 1
    /\ IF \E i \in 1..Len(lines) : NamesEducation(lines[i])
       THEN \E i \in 1..Len(lines) :
               /\ NamesEducation(lines[i])
               /\ \A k \in 1..(i - 1) : ~NamesEducation(lines[k])
               /\ EducationFrom(lines, i, education[1])
       ELSE /\ Get(education[1], Key.degree)
                = Str(<<"B","a","c","h","e","l","o","r"," ","o","f"," ","S","c","i","e","n","c","e">>)
            /\ Get(education[1], Key.school)
                = Str(<<"U","n","i","v","e","r","s","i","t","y">>)
            /\ FixedEducation(education[1])

\* C16: extractEducationFromText always returns exactly one entry.  If some
\* line holds 'bachelor', 'master' or 'university' ignoring case, the entry
\* comes from the first such line only: degree 'Bachelor of Science' if the
\* line holds 'Bachelor', else 'Master of Science' if it holds 'Master', else
\* 'Degree'; school the following line if that holds 'University', else
\* 'University'; year, cgpa and stream fixed.  Otherwise the entry is the
\* fixed placeholder.
C16_EducationEntry ==
    FallbackReturned =>
        EducationIs(Split(text, "\n"), completion.value.education.v)

\* the first matching line is followed by a line that matches as well and is
\* taken as the school
C16_Witness ==
    /\ FallbackReturned
    /\ Len(Split(text, "\n")) = 2
    /\ NamesEducation(Split(text, "\n")[1])
    /\ NamesEducation(Split(text, "\n")[2])
    /\ Get(completion.value.education.v[1], Key.school)
         = Str(Split(text, "\n")[2])

\* the certification the keyword contributes
CertificationOf(keyword) ==
    Str(keyword \o <<" ","C","e","r","t","i","f","i","c","a","t","i","o","n">>)

CertificationKeywords ==
    { <<"A","W","S">>, <<"G","o","o","g","l","e"," ","C","l","o","u","d">>,
      <<"M","o","n","g","o","D","B">>, <<"S","c","r","u","m">>,
      <<"C","e","r","t","i","f","i","e","d">>,
      <<"C","e","r","t","i","f","i","c","a","t","e">> }

\* C17: extractCertificationsFromText returns, without duplicates, exactly the
\* strings '<Keyword> Certification' of the keywords AWS, Google Cloud,
\* MongoDB, Scrum, Certified, Certificate that the text holds ignoring case;
\* it is empty exactly when the text holds none, no placeholder is synthesized.
C17_Certifications ==
    FallbackReturned =>
        /\ \A i, j \in 1..Len(completion.value.certifications.v) :
              i # j => completion.value.certifications.v[i]
                         # completion.value.certifications.v[j]
        /\ { completion.value.certifications.v[i] :
                i \in 1..Len(completion.value.certifications.v) }
             = { CertificationOf(keyword) :
                   keyword \in { w \in CertificationKeywords :
                                   OccursIgnoringCase(text, w) } }

\* three keywords in lower case, none of them as the list spells it
C17_Witness ==
    /\ FallbackReturned
    /\ \A w \in CertificationKeywords : ~Occurs(text, w)
    /\ Len(completion.value.certifications.v) = 3

\* the line is taken as a project: it holds 'project' and not 'projects:',
\* the case ignored
NamesProject(line) ==
    /\ OccursIgnoringCase(line, <<"p","r","o","j","e","c","t">>)
    /\ ~OccursIgnoringCase(line, <<"p","r","o","j","e","c","t","s",":">>)

ProjectLineNumbers(lines) == { i \in 1..Len(lines) : NamesProject(lines[i]) }

\* the lines after line i that are non-empty once trimmed
NonEmptyAfter(lines, i) ==
    { k \in (i + 1)..Len(lines) : Trim(lines[k]) # <<>> }

\* C18: for every line extractProjectsFromText takes as a project, the
\* entry's description is the next non-empty line anywhere after it in the
\* text, and 'Developed a software application' only when none follows.
C18_DescriptionNextNonEmpty ==
    (FallbackReturned /\ ProjectLineNumbers(Split(text, "\n")) # {}) =>
        /\ Len(completion.value.projects.v)
             = Cardinality(ProjectLineNumbers(Split(text, "\n")))
        /\ \A k \in 1..Len(completion.value.projects.v) :
            Get(completion.value.projects.v[k], Key.description) =
                Str(IF NonEmptyAfter(Split(text, "\n"),
                        Nth(ProjectLineNumbers(Split(text, "\n")), k)) = {}
                    THEN <<"D","e","v","e","l","o","p","e","d"," ","a"," ",
                           "s","o","f","t","w","a","r","e"," ",
                           "a","p","p","l","i","c","a","t","i","o","n">>
                    ELSE Trim(Split(text, "\n")[
                            Min(NonEmptyAfter(Split(text, "\n"),
                                Nth(ProjectLineNumbers(Split(text, "\n")), k)))]))

\* the taxonomy entries occurring, the case ignored, in one of the two lines
\* that follow line i
SkillsAfter(lines, i) ==
    { s \in 1..Len(technicalSkills) :
        \E k \in (i + 1)..Min({i + 2, Len(lines)}) :
            OccursIgnoringCase(lines[k], technicalSkills[s]) }

\* technologies holds at most three taxonomy skills, in taxonomy order, each
\* occurring in the two lines after line i
TechnologiesWithin(lines, i, technologies) ==
    /\ Len(technologies) <= 3
    /\ \A a \in 1..Len(technologies) :
        \E s \in SkillsAfter(lines, i) :
            /\ technologies[a] = Str(technicalSkills[s])
            /\ \A b \in 1..(a - 1) :
                \E r \in 1..(s - 1) : technologies[b] = Str(technicalSkills[r])
    /\ SkillsAfter(lines, i) = {} => Len(technologies) = 0

\* C19: for every project entry extractProjectsFromText derives from a line of
\* the text, technologies holds at most three skills, in taxonomy order, each a
\* taxonomy skill that occurs ignoring case in the two lines following the
\* project line; when none occurs there, technologies is empty.
C19_TechnologiesFromNextLines ==
    (FallbackReturned /\ ProjectLineNumbers(Split(text, "\n")) # {}) =>
        \A k \in 1..Len(completion.value.projects.v) :
            TechnologiesWithin(
                Split(text, "\n"),
                Nth(ProjectLineNumbers(Split(text, "\n")), k),
                Get(completion.value.projects.v[k], Key.technologies).v)

\* C20: once a 401 response has been handled or logout has run, the stored
\* token and the stored user are removed and no later request sent through
\* the api client carries the old token in its Authorization header, until a
\* later successful login or register stores a new one.
C20_OldTokenNeverSent ==
    cleared # Absent =>
        /\ storage.token = Absent
        /\ storage.user = Absent
        /\ cleared \notin sentSince


\* slot a is earlier than slot b
Earlier(a, b) == a.day < b.day \/ (a.day = b.day /\ a.time < b.time)

\* Monday 26 February 2024 is day 19779: the days from Monday to Friday
Weekday(d) == (d - 19779) % 7 \in 0..4

\* C21: for every start date and every daysAhead >= 0 the slots returned by
\* generateInterviewSlots are in strictly ascending time order, each on a
\* Monday-to-Friday date at 9, 10, 11, 14, 15 or 16 o'clock sharp, all within
\* the daysAhead consecutive calendar days that start at startDate, and every
\* weekday of that window has exactly 6 slots (weekend days count towards
\* daysAhead and have none).
C21_InterviewSlots ==
    scheduling.pc = "returned" =>
        /\ \A i \in 1..(Len(scheduling.slots) - 1) :
              Earlier(scheduling.slots[i], scheduling.slots[i + 1])
        /\ \A i \in 1..Len(scheduling.slots) :
              /\ Weekday(scheduling.slots[i].day)
              /\ scheduling.slots[i].time
                    \in { h * 3600000 : h \in {9, 10, 11, 14, 15, 16} }
              /\ scheduling.slots[i].day >= scheduling.startDate.day
              /\ scheduling.slots[i].day
                    < scheduling.startDate.day + scheduling.daysAhead
        /\ \A d \in scheduling.startDate.day
                    ..(scheduling.startDate.day + scheduling.daysAhead - 1) :
              Weekday(d) =>
                  Cardinality({ i \in 1..Len(scheduling.slots) :
                                  scheduling.slots[i].day = d }) = 6

\* seven days ahead from Thursday 29 February 2024, 12:34:56.789: the window
\* crosses the end of the month and a weekend, and holds five weekdays
C21_Witness ==
    /\ scheduling.pc = "returned"
    /\ scheduling.startDate = [day |-> 19782, time |-> 45296789]
    /\ scheduling.daysAhead = 7
    /\ Len(scheduling.slots) = 30
    /\ scheduling.slots[1] = [day |-> 19782, time |-> 32400000]
    /\ scheduling.slots[13] = [day |-> 19786, time |-> 32400000]
    /\ scheduling.slots[30] = [day |-> 19788, time |-> 57600000]

=============================================================================
